---- MODULE Spec2Model ----
(***************************************************************************)
(* Sales-reply-coach: the knowledge ingestion pipeline                     *)
(* (knowledgeBase.addUrl, processItem, delete), the Brain Statistics       *)
(* rollup, the retry wrapper around the generation client, the suggestion  *)
(* pipeline (chat.sendInbound) and the prospect and workspace requests, as *)
(* implemented in server/routers.ts on top of server/db.ts.                *)
(*                                                                         *)
(* Every `await` of a processItem run is one step of a run slot, so a run   *)
(* interleaves with other requests at every generation call and every      *)
(* store call.  The other handlers are functions from the tables and the    *)
(* behaviour of the environment (what each generation call answers, which   *)
(* store call throws) to the new tables and the response.                   *)
(***************************************************************************)
EXTENDS Integers, Sequences, FiniteSets, Bags, TLC

\* ------------------------------------------------------------------ bounds
MaxItems == 1
MaxRuns == 2
MaxProspects == 1
MaxMessages == 2
MaxLearned == 2
MaxRetriesArg == 3

\* ------------------------------------------------------- program constants
DefaultMaxRetries == 2
BaseWaitMs == 2000
PromptMaxChunks == 25
DefaultRelevance == 50
LearnedRelevance == 80
ConversationSource == 0

Users == {1, 2}
Runs == {1, 2}
NoId == 0

Categories ==
  {"opening_lines", "rapport_building", "pain_discovery", "objection_handling",
   "trust_building", "closing_techniques", "psychology_insight",
   "language_pattern", "emotional_trigger", "general_wisdom"}

ConversationStages ==
  {"first_contact", "warm_rapport", "pain_discovery", "objection_resistance",
   "trust_reinforcement", "referral_to_expert", "expert_close"}

BrainTypes == {"friend", "expert", "both"}

\* ----------------------------------------------------------- error messages
ErrDb == "Database not available"
ErrItemNotFound == "Item not found"
ErrProspectNotFound == "Prospect not found"
ErrUnavailable == "AI service is temporarily unavailable. Please try again in a few minutes."
ErrInvalidStructure == "Invalid response structure from AI service"
ErrUpstream == "LLM invoke failed"
ErrHtmlPage == "<html>502 Bad Gateway</html>"
ErrSyntax == "SyntaxError: Unexpected token"
ErrType == "TypeError: Cannot read properties of null"
ErrEmptyBrain == "Your AI brain is empty! Please upload sales training books or videos first to train your AI. Go to Knowledge Base and add content."
ErrConstraint == "Field doesn't have a default value"
ErrTruncated == "Data truncated for column"
ErrNoValues == "No values to set"
ErrNoUrls == "Please add at least one social URL for this prospect"
NoError == ""

\* ------------------------------------------------------ callLLMWithRetry
\* What one invocation of invokeLLM does: returns a result with a choices
\* array, returns one without, throws an error whose message holds an HTML
\* page, or throws another error.
InvokeOutcomes == {"ok", "noChoices", "throwHtml", "throwOther"}

\* The message of the error the catch block of one attempt sees.
AttemptErrorMessage(o) ==
  CASE o = "noChoices" -> ErrInvalidStructure
    [] o = "throwHtml" -> ErrHtmlPage
    [] OTHER -> ErrUpstream

IsHtmlMessage(msg) == msg = ErrHtmlPage

\* lastError after the classification of lines 81-89.
ClassifiedError(o) ==
  IF IsHtmlMessage(AttemptErrorMessage(o)) THEN ErrUnavailable
  ELSE AttemptErrorMessage(o)

\* A wait that grows by the base each time instead of doubling.
WaitTimeLinear(attempt) == BaseWaitMs * (attempt + 1)

\* Line 92.
WaitTime(attempt) == BaseWaitMs * (2 ^ attempt)

\* The for loop of callLLMWithRetry from `attempt` on: outs[k+1] is what the
\* invocation of attempt k does.  Returns whether a result came back, which
\* invocation produced it, the error thrown otherwise, the number of
\* invocations made and the waits slept, in order.
RECURSIVE RetryLoop(_, _, _, _, _)
RetryLoop(outs, maxRetries, attempt, lastError, waits) ==
  IF attempt > maxRetries
  THEN [ok |-> FALSE, from |-> 0, error |-> lastError,
        invocations |-> attempt, waits |-> waits]
  ELSE IF outs[attempt + 1] = "ok"
  THEN [ok |-> TRUE, from |-> attempt + 1, error |-> NoError,
        invocations |-> attempt + 1, waits |-> waits]
  ELSE RetryLoop(outs, maxRetries, attempt + 1,
                 ClassifiedError(outs[attempt + 1]),
                 IF attempt < maxRetries
                 THEN Append(waits, WaitTime(attempt)) ELSE waits)

\* The loop with `attempt < maxRetries` for its bound: one invocation short.
CallLLMWithRetryOneShort(outs, maxRetries) ==
  RetryLoop(outs, maxRetries - 1, 0, NoError, <<>>)

CallLLMWithRetry(outs, maxRetries) ==
  RetryLoop(outs, maxRetries, 0, NoError, <<>>)

\* Every way a call of a handler, made with the default number of retries,
\* can end when each invocation either answers or throws.
HandlerInvokeOutcomes == {"ok", "throwOther"}

LLMResults ==
  {CallLLMWithRetry(outs, DefaultMaxRetries) :
     outs \in [1..(DefaultMaxRetries + 1) -> HandlerInvokeOutcomes]}

\* ------------------------------------------------------------------ state
VARIABLES
  items,          \* knowledge_base_items: id -> row
  nextItemId,     \* its AUTO_INCREMENT counter
  chunks,         \* knowledge_chunks: a bag of rows (ids left out)
  brainStats,     \* ai_brain_stats: user -> row
  prospects,      \* prospects: id -> row
  nextProspectId,
  chatMessages,   \* chat_messages: a set of rows
  nextMessageId,
  aiSuggestions,  \* ai_suggestions: a set of rows
  runs,           \* the processItem requests in flight, one per slot
  retry           \* a callLLMWithRetry call on its own: arguments and result

vars == <<items, nextItemId, chunks, brainStats, prospects, nextProspectId,
          chatMessages, nextMessageId, aiSuggestions, runs, retry>>

kbVars == <<items, nextItemId, chunks, brainStats>>
chatVars == <<prospects, nextProspectId, chatMessages, nextMessageId, aiSuggestions>>

ItemIds == 1..MaxItems
ProspectIds == 1..MaxProspects

\* The nine summary columns of knowledge_base_items; `summary` of a row maps
\* each to what it holds: NULL, a text of the summary reply, the first 500
\* characters of the extracted content, or the text "Not extracted".
SummaryFields ==
  {"comprehensiveSummary", "salesPsychology", "rapportTechniques",
   "conversationStarters", "objectionFrameworks", "closingTechniques",
   "languagePatterns", "emotionalTriggers", "trustStrategies"}

NullSummary == [f \in SummaryFields |-> "NULL"]

NoItem ==
  [exists |-> FALSE, userId |-> NoId, type |-> "url", sourceUrl |-> <<>>,
   platform |-> "other", summary |-> NullSummary,
   status |-> "pending", progress |-> 0, errorMessage |-> NoError,
   brainType |-> "both"]

\* A row as createKnowledgeBaseItem inserts it: the columns it is not given
\* take the defaults of the table.
NewItem(u, type, sourceUrl, platform) ==
  [exists |-> TRUE, userId |-> u, type |-> type, sourceUrl |-> sourceUrl,
   platform |-> platform, summary |-> NullSummary,
   status |-> "pending", progress |-> 0, errorMessage |-> NoError,
   brainType |-> "both"]

NoStats ==
  [exists |-> FALSE, totalSources |-> 0, totalChunks |-> 0,
   categoryBreakdown |-> [c \in Categories |-> 0]]

\* lastMessageAt of a prospect no message was stored for (NULL); otherwise
\* the column holds the time of the statement that last touched it, which is
\* counted in message ids.
Never == 0

NoProspect ==
  [exists |-> FALSE, userId |-> NoId, workspaceId |-> NoId, hasUrls |-> FALSE,
   profileAnalysis |-> "none", conversationStage |-> "first_contact",
   replyMode |-> "friend", outcome |-> "active", lastMessageAt |-> Never]

\* A row as createProspect inserts it (lines 305-314); hasUrls: one of the
\* four URLs was given.
NewProspect(u, workspaceId, hasUrls, isReEngagement) ==
  [exists |-> TRUE, userId |-> u, workspaceId |-> workspaceId, hasUrls |-> hasUrls,
   profileAnalysis |-> "none",
   conversationStage |-> IF isReEngagement THEN "warm_rapport" ELSE "first_contact",
   replyMode |-> "friend", outcome |-> "active", lastMessageAt |-> Never]

IdleRun ==
  [pc |-> "idle", n |-> 0, user |-> NoId, id |-> NoId, type |-> "url",
   brainType |-> "both", prior |-> 0, summary |-> <<>>,
   chunksData |-> [isNull |-> FALSE, hasChunks |-> FALSE, chunks |-> <<>>],
   error |-> NoError, result |-> "none"]

RetryIdle == [pc |-> "idle", maxRetries |-> 0, outs |-> <<>>,
              out |-> CallLLMWithRetry(<<"ok">>, 0)]

Init ==
  /\ items = [i \in ItemIds |-> NoItem]
  /\ nextItemId = 1
  /\ chunks = EmptyBag
  /\ brainStats = [u \in Users |-> NoStats]
  /\ prospects = [p \in ProspectIds |-> NoProspect]
  /\ nextProspectId = 1
  /\ chatMessages = {}
  /\ nextMessageId = 1
  /\ aiSuggestions = {}
  /\ runs = [r \in Runs |-> IdleRun]
  /\ retry = RetryIdle

\* ------------------------------------------------------------ store (db.ts)
\* A record with the fields of `updates` overwritten (drizzle's .set()).
Merge(row, updates) ==
  [f \in DOMAIN row |-> IF f \in DOMAIN updates THEN updates[f] ELSE row[f]]

\* SELECT ... WHERE id = ? AND userId = ?
HasItem(its, id, u) == id \in ItemIds /\ its[id].exists /\ its[id].userId = u

\* UPDATE ... SET updates WHERE id = ? AND userId = ?: no row, no change.
UpdateKnowledgeBaseItem(its, id, u, updates) ==
  IF HasItem(its, id, u) THEN [its EXCEPT ![id] = Merge(@, updates)] ELSE its

DeleteKnowledgeBaseItem(its, id, u) ==
  IF HasItem(its, id, u) THEN [its EXCEPT ![id] = NoItem] ELSE its

\* The lookup without its condition on the owner.
HasProspectOfAnyone(ps, id, u) == id \in ProspectIds /\ ps[id].exists

\* SELECT ... FROM prospects WHERE id = ? AND userId = ?
HasProspect(ps, id, u) == id \in ProspectIds /\ ps[id].exists /\ ps[id].userId = u

UpdateProspect(ps, id, u, updates) ==
  IF HasProspect(ps, id, u) THEN [ps EXCEPT ![id] = Merge(@, updates)] ELSE ps

\* getChatMessages / getConversationContext: the rows of one prospect and user.
GetChatMessages(ms, pid, u) == {m \in ms : m.prospectId = pid /\ m.userId = u}

\* The second statement of createChatMessage: UPDATE prospects SET
\* lastMessageAt = now WHERE id = ?, with no condition on the owner.
TouchProspect(ps, pid, at) ==
  IF pid \in ProspectIds /\ ps[pid].exists
  THEN [ps EXCEPT ![pid].lastMessageAt = at] ELSE ps

\* The row createChatMessage inserts; the id is the AUTO_INCREMENT value and
\* grows with the time of creation.
NewThreadMessage(id, pid, u, direction, threadType) ==
  [id |-> id, prospectId |-> pid, userId |-> u, direction |-> direction,
   threadType |-> threadType]

\* The row of a request that names no thread: the thread is friend.
NewChatMessage(id, pid, u, direction) ==
  NewThreadMessage(id, pid, u, direction, "friend")

\* The rows of the set S by creation time, oldest first.
RECURSIVE ByCreatedAt(_)
ByCreatedAt(S) ==
  IF S = {} THEN <<>>
  ELSE LET first == CHOOSE m \in S : \A other \in S : m.id <= other.id
       IN <<first>> \o ByCreatedAt(S \ {first})

\* getChatMessages(prospectId, userId, threadType): the messages of one
\* thread of the prospect, ordered by createdAt.
GetThread(ms, pid, u, threadType) ==
  ByCreatedAt({m \in GetChatMessages(ms, pid, u) : m.threadType = threadType})

\* Lines 479-481 of updateOutcome: the friend thread, then the expert thread.
AllMessages(ms, pid, u) ==
  GetThread(ms, pid, u, "friend") \o GetThread(ms, pid, u, "expert")

\* The bag B kept to the rows of the set S.
Restrict(B, S) == [c \in S |-> B[c]]

OfSource(B, id, u) ==
  Restrict(B, {c \in DOMAIN B : c.sourceId = id /\ c.userId = u})

OfUser(B, u) == Restrict(B, {c \in DOMAIN B : c.userId = u})

DeleteKnowledgeChunksBySource(B, id, u) ==
  Restrict(B, {c \in DOMAIN B : ~(c.sourceId = id /\ c.userId = u)})

\* The bag of the rows of a sequence.
RECURSIVE SeqToBag(_)
SeqToBag(s) ==
  IF s = <<>> THEN EmptyBag ELSE SetToBag({Head(s)}) (+) SeqToBag(Tail(s))

\* A column that takes any string as category.
StoreAcceptsAnyCategory(rows) == \A i \in DOMAIN rows : rows[i].category \in STRING

\* The category column is an enum of the ten categories.
StoreAcceptsChunks(rows) == \A i \in DOMAIN rows : rows[i].category \in Categories

CreateKnowledgeChunks(B, rows) == B (+) SeqToBag(rows)

CountCategory(B, u, cat) ==
  BagCardinality(Restrict(B, {c \in DOMAIN B : c.userId = u /\ c.category = cat}))

\* updateBrainStats: the whole rollup recomputed from the tables.
ComputedStats(its, B, u) ==
  [exists |-> TRUE,
   totalSources |-> Cardinality({i \in ItemIds : its[i].exists /\ its[i].userId = u}),
   totalChunks |-> BagCardinality(OfUser(B, u)),
   categoryBreakdown |-> [c \in Categories |-> CountCategory(B, u, c)]]

UpdateBrainStats(stats, its, B, u) ==
  [stats EXCEPT ![u] = ComputedStats(its, B, u)]

\* getOrCreateBrainStats: the stored row, inserted with the defaults of the
\* table when the user has none.
GetOrCreateBrainStats(stats, u) ==
  IF stats[u].exists THEN stats ELSE [stats EXCEPT ![u].exists = TRUE]

\* ------------------------------------------- generation responses (content)
\* choices[0].message.content of a reply: a string or not, and what the string
\* parses to when it is JSON.
EmptyChunksData == [isNull |-> FALSE, hasChunks |-> TRUE, chunks |-> <<>>]
NoChunksKey == [isNull |-> FALSE, hasChunks |-> FALSE, chunks |-> <<>>]
JsonNull == [isNull |-> TRUE, hasChunks |-> FALSE, chunks |-> <<>>]

OneChunk == <<[category |-> "opening_lines", content |-> "a"]>>
TwoChunks == <<[category |-> "objection_handling", content |-> "b"],
               [category |-> "general_wisdom", content |-> "c"]>>
TooManyChunks ==
  [i \in 1..(PromptMaxChunks + 1) |-> [category |-> "rapport_building", content |-> "d"]]
OutOfEnumChunk == <<[category |-> "sales_hack", content |-> "e"]>>

ChunkReplies ==
  {[isString |-> FALSE, validJson |-> FALSE, value |-> JsonNull],
   [isString |-> TRUE, validJson |-> FALSE, value |-> JsonNull],
   [isString |-> TRUE, validJson |-> TRUE, value |-> JsonNull],
   [isString |-> TRUE, validJson |-> TRUE, value |-> NoChunksKey]}
  \cup {[isString |-> TRUE, validJson |-> TRUE,
         value |-> [isNull |-> FALSE, hasChunks |-> TRUE, chunks |-> cs]] :
          cs \in {<<>>, OneChunk, TwoChunks, TooManyChunks, OutOfEnumChunk}}

\* Lines 1232-1238: JSON.parse of the content, of '{"chunks":[]}' when the
\* content is no string; { chunks: [] } when JSON.parse throws.
ParseChunkReply(reply) ==
  IF ~reply.isString THEN EmptyChunksData
  ELSE IF ~reply.validJson THEN EmptyChunksData
  ELSE reply.value

\* The rows processItem builds from chunksData.chunks (lines 1244-1253).
ChunksToInsert(u, id, brainType, cs) ==
  [i \in DOMAIN cs |->
     [userId |-> u, sourceId |-> id, category |-> cs[i].category,
      content |-> cs[i].content, relevanceScore |-> DefaultRelevance,
      brainType |-> brainType]]

\* ----------------------------------------------------- knowledgeBase.addUrl
\* A string is the sequence of its characters.
UpperCase == <<"A", "B", "C", "D", "E", "F", "G", "H", "I", "J", "K", "L", "M", "N", "O", "P", "Q", "R", "S", "T", "U", "V", "W", "X", "Y", "Z">>

LowerCase == <<"a", "b", "c", "d", "e", "f", "g", "h", "i", "j", "k", "l", "m", "n", "o", "p", "q", "r", "s", "t", "u", "v", "w", "x", "y", "z">>

ToLowerCase(str) ==
  [i \in DOMAIN str |->
     IF \E k \in DOMAIN UpperCase : UpperCase[k] = str[i]
     THEN LowerCase[CHOOSE k \in DOMAIN UpperCase : UpperCase[k] = str[i]]
     ELSE str[i]]

\* str.includes(part)
Includes(str, part) ==
  \E i \in 0..(Len(str) - Len(part)) : \A j \in DOMAIN part : str[i + j] = part[j]

\* Lines 12-21: the first platform one of whose markers occurs anywhere in the
\* lower-cased URL.
DetectPlatform(url) ==
  LET urlLower == ToLowerCase(url)
  IN IF Includes(urlLower, <<"y", "o", "u", "t", "u", "b", "e", ".", "c", "o", "m">>) \/ Includes(urlLower, <<"y", "o", "u", "t", "u", ".", "b", "e">>)
     THEN "youtube"
     ELSE IF Includes(urlLower, <<"i", "n", "s", "t", "a", "g", "r", "a", "m", ".", "c", "o", "m">>) THEN "instagram"
     ELSE IF Includes(urlLower, <<"t", "i", "k", "t", "o", "k", ".", "c", "o", "m">>) THEN "tiktok"
     ELSE IF Includes(urlLower, <<"f", "a", "c", "e", "b", "o", "o", "k", ".", "c", "o", "m">>) \/ Includes(urlLower, <<"f", "b", ".", "w", "a", "t", "c", "h">>)
     THEN "facebook"
     ELSE IF Includes(urlLower, <<"t", "w", "i", "t", "t", "e", "r", ".", "c", "o", "m">>) \/ Includes(urlLower, <<"x", ".", "c", "o", "m">>)
     THEN "twitter"
     ELSE IF Includes(urlLower, <<"l", "i", "n", "k", "e", "d", "i", "n", ".", "c", "o", "m">>) THEN "linkedin"
     ELSE "other"

\* The characters of a URL scheme after its first letter.
SchemeChars == {LowerCase[k] : k \in DOMAIN LowerCase} \cup {"+", "-", "."}

\* Line 985, z.string().url(): the string parses as a URL, which takes a
\* scheme, a letter followed by scheme characters up to the first colon, and
\* something after it.
IsValidUrl(str) ==
  \E k \in DOMAIN str :
    /\ str[k] = ":"
    /\ k > 1 /\ k < Len(str)
    /\ ToLowerCase(str)[1] \in {LowerCase[i] : i \in DOMAIN LowerCase}
    /\ \A i \in 1..(k - 1) : ToLowerCase(str)[i] \in SchemeChars

\* https://youtube.com/w
YoutubeUrl == <<"h", "t", "t", "p", "s", ":", "/", "/", "y", "o", "u", "t", "u", "b", "e", ".", "c", "o", "m", "/", "w">>

\* https://youtu.be/w
ShortYoutubeUrl == <<"h", "t", "t", "p", "s", ":", "/", "/", "y", "o", "u", "t", "u", ".", "b", "e", "/", "w">>

\* https://instagram.com/p
InstagramUrl == <<"h", "t", "t", "p", "s", ":", "/", "/", "i", "n", "s", "t", "a", "g", "r", "a", "m", ".", "c", "o", "m", "/", "p">>

\* https://WWW.TikTok.com/v
TiktokUrl == <<"h", "t", "t", "p", "s", ":", "/", "/", "W", "W", "W", ".", "T", "i", "k", "T", "o", "k", ".", "c", "o", "m", "/", "v">>

\* https://fb.watch/v
FacebookUrl == <<"h", "t", "t", "p", "s", ":", "/", "/", "f", "b", ".", "w", "a", "t", "c", "h", "/", "v">>

\* https://x.com/s
TwitterUrl == <<"h", "t", "t", "p", "s", ":", "/", "/", "x", ".", "c", "o", "m", "/", "s">>

\* https://linkedin.com/in
LinkedinUrl == <<"h", "t", "t", "p", "s", ":", "/", "/", "l", "i", "n", "k", "e", "d", "i", "n", ".", "c", "o", "m", "/", "i", "n">>

\* https://example.org/a
OtherUrl == <<"h", "t", "t", "p", "s", ":", "/", "/", "e", "x", "a", "m", "p", "l", "e", ".", "o", "r", "g", "/", "a">>

\* https://netflix.com/t
NetflixUrl == <<"h", "t", "t", "p", "s", ":", "/", "/", "n", "e", "t", "f", "l", "i", "x", ".", "c", "o", "m", "/", "t">>

\* not-a-valid-url
NoUrl == <<"n", "o", "t", "-", "a", "-", "v", "a", "l", "i", "d", "-", "u", "r", "l">>

\* youtube.com/w
NoSchemeUrl == <<"y", "o", "u", "t", "u", "b", "e", ".", "c", "o", "m", "/", "w">>

\* The url inputs of addUrl requests.
UrlInputs ==
  {YoutubeUrl,
   ShortYoutubeUrl,
   InstagramUrl,
   TiktokUrl,
   FacebookUrl,
   TwitterUrl,
   LinkedinUrl,
   OtherUrl,
   NetflixUrl,
   NoUrl,
   NoSchemeUrl}

\* Lines 988-999 as a function of the table: the table after the request and
\* its response.  An input the schema rejects never reaches the handler.
AddUrlRun(its, nid, u, url) ==
  IF ~IsValidUrl(url)
  THEN [items |-> its, nextItemId |-> nid, ok |-> FALSE, id |-> NoId,
        platform |-> "other"]
  ELSE [items |-> [its EXCEPT ![nid] = NewItem(u, "url", url, DetectPlatform(url))],
        nextItemId |-> nid + 1, ok |-> TRUE, id |-> nid,
        platform |-> DetectPlatform(url)]

AddUrl(u, url) ==
  /\ nextItemId <= MaxItems
  /\ items' = AddUrlRun(items, nextItemId, u, url).items
  /\ nextItemId' = AddUrlRun(items, nextItemId, u, url).nextItemId
  /\ UNCHANGED <<chunks, brainStats, chatVars, runs, retry>>

\* ------------------------------------------------ knowledgeBase.processItem
InFlight(r) == runs[r].pc \notin {"idle", "done"}

Goto(r, pc) == runs' = [runs EXCEPT ![r].pc = pc]

\* An exception inside the try block: control moves to the catch block.
Throw(r, msg) == runs' = [runs EXCEPT ![r].pc = "catch", ![r].error = msg]

\* The request ends with an error raised to the caller; its locals are gone
\* with it.
Fail(r, msg) ==
  runs' = [runs EXCEPT ![r] =
    [IdleRun EXCEPT !.pc = "done", !.n = runs[r].n, !.result = "error", !.error = msg]]

\* The request returns { success: true, ... }: what it was about and the
\* chunks it created stay on record as its response.
Succeed(r) ==
  runs' = [runs EXCEPT ![r] =
    [IdleRun EXCEPT !.pc = "done", !.n = runs[r].n, !.result = "ok",
                    !.user = runs[r].user, !.id = runs[r].id,
                    !.brainType = runs[r].brainType, !.prior = runs[r].prior,
                    !.chunksData = runs[r].chunksData]]

\* One `await db.updateKnowledgeBaseItem(...)` of the try block.
WriteStep(r, from, to, updates) ==
  /\ runs[r].pc = from
  /\ \/ /\ items' = UpdateKnowledgeBaseItem(items, runs[r].id, runs[r].user, updates)
        /\ Goto(r, to)
     \/ /\ Throw(r, ErrDb)
        /\ UNCHANGED items
  /\ UNCHANGED <<nextItemId, chunks, brainStats, chatVars, retry>>

\* Lines 1029-1030: the lookup; a new request takes a free slot.  `prior`
\* remembers how many chunks the source had when the request came in.  The
\* request ends here when the store is unavailable or has no such item of the
\* caller.
LookupOutcomes(its, B, n, u, id) ==
  {[IdleRun EXCEPT !.pc = "done", !.n = n + 1, !.result = "error", !.error = ErrDb]}
  \cup IF HasItem(its, id, u)
       THEN {[IdleRun EXCEPT !.pc = "setProcessing", !.n = n + 1,
                !.user = u, !.id = id,
                !.type = its[id].type, !.brainType = its[id].brainType,
                !.prior = BagCardinality(OfSource(B, id, u))]}
       ELSE {[IdleRun EXCEPT !.pc = "done", !.n = n + 1,
                !.result = "error", !.error = ErrItemNotFound]}

ProcessItemLookup(r, u, id) ==
  /\ ~InFlight(r)
  /\ runs[r].n < MaxRuns
  /\ \E next \in LookupOutcomes(items, chunks, runs[r].n, u, id) :
       runs' = [runs EXCEPT ![r] = next]
  /\ UNCHANGED <<kbVars, chatVars, retry>>

\* Lines 1032-1035, before the try block: a throw goes to the caller.
ProcessItemSetProcessing(r) ==
  /\ runs[r].pc = "setProcessing"
  /\ \/ /\ items' = UpdateKnowledgeBaseItem(items, runs[r].id, runs[r].user,
                      [status |-> "processing", progress |-> 5])
        /\ Goto(r, "progress10")
     \/ /\ Fail(r, ErrDb)
        /\ UNCHANGED items
  /\ UNCHANGED <<nextItemId, chunks, brainStats, chatVars, retry>>

ProcessItemProgress10(r) ==
  WriteStep(r, "progress10", "extract", [progress |-> 10])

\* Lines 1043-1108: the extraction call (url and pdf items alike).
ProcessItemExtract(r) ==
  /\ runs[r].pc = "extract"
  /\ \E res \in LLMResults :
       IF res.ok THEN Goto(r, "progress40") ELSE Throw(r, res.error)
  /\ UNCHANGED <<kbVars, chatVars, retry>>

ProcessItemProgress40(r) ==
  WriteStep(r, "progress40", "progress50", [progress |-> 40])

ProcessItemProgress50(r) ==
  WriteStep(r, "progress50", "summarize", [progress |-> 50])

\* What choices[0].message.content of the summary reply can be: an object
\* with the nine fields, an object with only the first, the object {}, the
\* JSON literal null, a content that is no string, a text that is no JSON.
CompleteReply == "complete"
SummaryReplies ==
  {CompleteReply, "oneField", "emptyObject", "jsonNull", "notString", "notJson"}

\* Lines 1169-1176: the summary of the catch clause.
FallbackSummary ==
  [f \in SummaryFields |->
     IF f = "comprehensiveSummary" THEN "contentPrefix" ELSE "Not extracted"]

\* Lines 1161-1177: JSON.parse of the content, or of '{}' when the content is
\* no string; the catch clause only when JSON.parse throws.  The result maps
\* the keys `...summary` spreads to their values: none for {} and for null.
ParseSummaryReply(reply) ==
  CASE reply = CompleteReply -> [f \in SummaryFields |-> "extracted"]
    [] reply = "oneField" -> [f \in {"comprehensiveSummary"} |-> "extracted"]
    [] reply \in {"emptyObject", "jsonNull", "notString"} -> <<>>
    [] OTHER -> FallbackSummary

\* The summary columns after UPDATE ... SET of the keys of `summary`.
SetSummary(stored, summary) ==
  [f \in SummaryFields |->
     IF f \in DOMAIN summary THEN summary[f] ELSE stored[f]]

\* Lines 1127-1177: the summary call; its reply is parsed without an await,
\* and a reply that is no JSON gives the degraded summary, never a throw.
ProcessItemSummarize(r, replies) ==
  /\ runs[r].pc = "summarize"
  /\ \E res \in LLMResults :
       IF res.ok
       THEN \E reply \in replies :
              runs' = [runs EXCEPT ![r].pc = "progress70",
                                   ![r].summary = ParseSummaryReply(reply)]
       ELSE Throw(r, res.error)
  /\ UNCHANGED <<kbVars, chatVars, retry>>

\* Lines 1179-1182: the summary columns and progress 70 in one UPDATE.
ProcessItemProgress70(r) ==
  /\ runs[r].pc = "progress70"
  /\ \/ /\ items' = UpdateKnowledgeBaseItem(items, runs[r].id, runs[r].user,
                      [summary |-> SetSummary(items[runs[r].id].summary,
                                              runs[r].summary),
                       progress |-> 70])
        /\ runs' = [runs EXCEPT ![r].pc = "progress75", ![r].summary = <<>>]
     \/ /\ Throw(r, ErrDb)
        /\ UNCHANGED items
  /\ UNCHANGED <<nextItemId, chunks, brainStats, chatVars, retry>>

ProcessItemProgress75(r) ==
  WriteStep(r, "progress75", "deleteChunks", [progress |-> 75])

\* The run without line 1188: the chunks of the earlier run stay.
ProcessItemKeepChunks(r) ==
  /\ runs[r].pc = "deleteChunks"
  /\ Goto(r, "generateChunks")
  /\ UNCHANGED <<kbVars, chatVars, retry>>

\* Line 1188.
ProcessItemDeleteChunks(r) ==
  /\ runs[r].pc = "deleteChunks"
  /\ \/ /\ chunks' = DeleteKnowledgeChunksBySource(chunks, runs[r].id, runs[r].user)
        /\ Goto(r, "generateChunks")
     \/ /\ Throw(r, ErrDb)
        /\ UNCHANGED chunks
  /\ UNCHANGED <<items, nextItemId, brainStats, chatVars, retry>>

\* Lines 1190-1238: the chunk call and the parse of its reply.
ProcessItemGenerateChunks(r) ==
  /\ runs[r].pc = "generateChunks"
  /\ \E res \in LLMResults :
       IF res.ok
       THEN \E reply \in ChunkReplies :
              runs' = [runs EXCEPT ![r].pc = "progress90",
                                   ![r].chunksData = ParseChunkReply(reply)]
       ELSE Throw(r, res.error)
  /\ UNCHANGED <<kbVars, chatVars, retry>>

\* Lines 1240-1243: progress 90, then the test of chunksData.chunks, which
\* throws a TypeError when the reply was the JSON literal null.
ProcessItemProgress90(r) ==
  /\ runs[r].pc = "progress90"
  /\ \/ /\ items' = UpdateKnowledgeBaseItem(items, runs[r].id, runs[r].user,
                      [progress |-> 90])
        /\ IF runs[r].chunksData.isNull THEN Throw(r, ErrType)
           ELSE IF runs[r].chunksData.hasChunks /\ Len(runs[r].chunksData.chunks) > 0
                THEN Goto(r, "insertChunks")
                ELSE Goto(r, "updateStats")
     \/ /\ Throw(r, ErrDb)
        /\ UNCHANGED items
  /\ UNCHANGED <<nextItemId, chunks, brainStats, chatVars, retry>>

\* Lines 1244-1255: one INSERT of all the rows.
ProcessItemInsertChunks(r) ==
  /\ runs[r].pc = "insertChunks"
  /\ LET rows == ChunksToInsert(runs[r].user, runs[r].id, runs[r].brainType,
                                runs[r].chunksData.chunks)
     IN \/ /\ StoreAcceptsChunks(rows)
           /\ chunks' = CreateKnowledgeChunks(chunks, rows)
           /\ Goto(r, "updateStats")
        \/ /\ ~StoreAcceptsChunks(rows)
           /\ Throw(r, ErrConstraint)
           /\ UNCHANGED chunks
        \/ /\ Throw(r, ErrDb)
           /\ UNCHANGED chunks
  /\ UNCHANGED <<items, nextItemId, brainStats, chatVars, retry>>

\* Line 1259.
ProcessItemUpdateStats(r) ==
  /\ runs[r].pc = "updateStats"
  /\ \/ /\ brainStats' = UpdateBrainStats(brainStats, items, chunks, runs[r].user)
        /\ Goto(r, "setReady")
     \/ /\ Throw(r, ErrDb)
        /\ UNCHANGED brainStats
  /\ UNCHANGED <<items, nextItemId, chunks, chatVars, retry>>

\* Lines 1261-1264.
ProcessItemSetReady(r) ==
  WriteStep(r, "setReady", "return", [status |-> "ready", progress |-> 100])

\* Lines 1266-1273: the statistics are read for the payload, still inside the
\* try block, and the request returns success.
ProcessItemReturn(r) ==
  /\ runs[r].pc = "return"
  /\ \/ /\ brainStats' = GetOrCreateBrainStats(brainStats, runs[r].user)
        /\ Succeed(r)
     \/ /\ Throw(r, ErrDb)
        /\ UNCHANGED brainStats
  /\ UNCHANGED <<items, nextItemId, chunks, chatVars, retry>>

\* A catch block that also puts the progress back to 0.
ProcessItemCatchResetsProgress(r) ==
  /\ runs[r].pc = "catch"
  /\ items' = UpdateKnowledgeBaseItem(items, runs[r].id, runs[r].user,
                [status |-> "failed", progress |-> 0, errorMessage |-> runs[r].error])
  /\ Fail(r, runs[r].error)
  /\ UNCHANGED <<nextItemId, chunks, brainStats, chatVars, retry>>

\* A catch block that also empties the summary columns.
ProcessItemCatchClearsSummary(r) ==
  /\ runs[r].pc = "catch"
  /\ \/ /\ items' = UpdateKnowledgeBaseItem(items, runs[r].id, runs[r].user,
                      [status |-> "failed", errorMessage |-> runs[r].error,
                       summary |-> NullSummary])
        /\ Fail(r, runs[r].error)
     \/ /\ Fail(r, ErrDb)
        /\ UNCHANGED items
  /\ UNCHANGED <<nextItemId, chunks, brainStats, chatVars, retry>>

\* Lines 1274-1280: the catch block records the failure and rethrows; when
\* its own UPDATE throws, that error is what the caller gets.
ProcessItemCatch(r) ==
  /\ runs[r].pc = "catch"
  /\ \/ /\ items' = UpdateKnowledgeBaseItem(items, runs[r].id, runs[r].user,
                      [status |-> "failed", errorMessage |-> runs[r].error])
        /\ Fail(r, runs[r].error)
     \/ /\ Fail(r, ErrDb)
        /\ UNCHANGED items
  /\ UNCHANGED <<nextItemId, chunks, brainStats, chatVars, retry>>

\* One step of the run of slot r; `replies`: the contents the summary reply
\* may have.
ProcessItemStepWith(r, replies) ==
  \/ ProcessItemSetProcessing(r)
  \/ ProcessItemProgress10(r)
  \/ ProcessItemExtract(r)
  \/ ProcessItemProgress40(r)
  \/ ProcessItemProgress50(r)
  \/ ProcessItemSummarize(r, replies)
  \/ ProcessItemProgress70(r)
  \/ ProcessItemProgress75(r)
  \/ ProcessItemDeleteChunks(r)
  \/ ProcessItemGenerateChunks(r)
  \/ ProcessItemProgress90(r)
  \/ ProcessItemInsertChunks(r)
  \/ ProcessItemUpdateStats(r)
  \/ ProcessItemSetReady(r)
  \/ ProcessItemReturn(r)
  \/ ProcessItemCatch(r)

\* The run whose summary reply has the nine fields the schema requires.
ProcessItemStep(r) == ProcessItemStepWith(r, {CompleteReply})

\* ------------------------------------------------------ knowledgeBase.delete
\* Lines 1302-1313: three store calls; the first that throws ends the request.
\* failAt = 0: none throws.
KnowledgeBaseDelete(u, id, failAt) ==
  LET chunks1 == IF failAt = 1 THEN chunks
                 ELSE DeleteKnowledgeChunksBySource(chunks, id, u)
      items1 == IF failAt \in {1, 2} THEN items
                ELSE DeleteKnowledgeBaseItem(items, id, u)
      stats1 == IF failAt \in {1, 2, 3} THEN brainStats
                ELSE UpdateBrainStats(brainStats, items1, chunks1, u)
  IN /\ chunks' = chunks1
     /\ items' = items1
     /\ brainStats' = stats1
     /\ UNCHANGED <<nextItemId, chatVars, runs, retry>>

\* The category lists the call sites with a fixed list pass to
\* searchKnowledgeChunks: lines 332, 407 and 909.
SearchCategories ==
  [prospectCreate |-> <<"re_engagement", "rapport_building", "trust_building">>,
   analyzeProfile |-> <<"opening_lines", "rapport_building", "psychology_insight">>,
   refineExpertMessage |-> <<"closing_techniques", "objection_handling", "psychology_insight">>]

\* ---------------------------------------------------------- prospect.create
\* choices[0].message.content of the re-engagement reply.
ImportReplies == {"notString", "empty", "invalidJson", "json"}

ProspectCreateFailures == {"none", "inboundMessage", "context"}

\* Lines 304-384.  Without an imported conversation the handler only inserts
\* the prospect.  With one it stores the conversation as an inbound message,
\* reads the workspace and the chunks, and inside a try block asks for a
\* re-engagement analysis and stores it as an outbound message; whatever the
\* try block throws is logged and dropped.  failAt names the store call
\* outside the try block that throws.
ProspectCreate(u, workspaceId, hasUrls, isReEngagement, imported, failAt, res, reply, stored) ==
  /\ nextProspectId <= MaxProspects
  /\ imported => nextMessageId + 1 <= MaxMessages
  /\ LET id == nextProspectId
         inbound == NewChatMessage(nextMessageId, id, u, "inbound")
         analysis == NewChatMessage(nextMessageId + 1, id, u, "outbound")
         analysed == failAt = "none" /\ res.ok /\ reply = "json" /\ stored
         created == [prospects EXCEPT ![id] =
                       NewProspect(u, workspaceId, hasUrls, isReEngagement)]
     IN /\ nextProspectId' = id + 1
        /\ IF ~imported \/ failAt = "inboundMessage"
           THEN /\ prospects' = created
                /\ UNCHANGED <<chatMessages, nextMessageId>>
           ELSE IF analysed
           THEN /\ prospects' = TouchProspect(created, id, analysis.id)
                /\ chatMessages' = chatMessages \cup {inbound, analysis}
                /\ nextMessageId' = nextMessageId + 2
           ELSE /\ prospects' = TouchProspect(created, id, inbound.id)
                /\ chatMessages' = chatMessages \cup {inbound}
                /\ nextMessageId' = nextMessageId + 1
  /\ UNCHANGED <<kbVars, aiSuggestions, runs, retry>>

\* ---------------------------------------------------------- chat.sendOutbound
\* Lines 858-873, without a suggestionId, as a function of the tables:
\* createChatMessage inserts the row, whoever owns the prospect, then touches
\* the prospect; a throw of the second statement leaves the row.
SendOutboundRun(ps, ms, nm, u, pid, failAt) ==
  LET start == [prospects |-> ps, chatMessages |-> ms, nextMessageId |-> nm,
                ok |-> FALSE, error |-> ErrDb]
      stored == [start EXCEPT !.chatMessages = ms \cup
                                 {NewChatMessage(nm, pid, u, "outbound")},
                              !.nextMessageId = nm + 1]
  IN IF failAt = "createChatMessage" THEN start
     ELSE IF failAt = "touchProspect" THEN stored
     ELSE [stored EXCEPT !.prospects = TouchProspect(ps, pid, nm),
                         !.ok = TRUE, !.error = NoError]

SendOutbound(u, pid, failAt) ==
  LET out == SendOutboundRun(prospects, chatMessages, nextMessageId, u, pid, failAt)
  IN /\ nextMessageId <= MaxMessages
     /\ prospects' = out.prospects
     /\ chatMessages' = out.chatMessages
     /\ nextMessageId' = out.nextMessageId
     /\ UNCHANGED <<kbVars, nextProspectId, aiSuggestions, runs, retry>>

\* ------------------------------------------------------ prospect.updateOutcome
\* The calls of a handler that answer at the first invocation, at the last
\* one, or never.
ChatLLMResults == {res \in LLMResults : res.invocations \in {1, DefaultMaxRetries + 1}}

OkAtOnce == CallLLMWithRetry(<<"ok", "ok", "ok">>, DefaultMaxRetries)

\* The technique of the i-th pattern of a learning reply.
Pattern(i) == IF i % 2 = 1 THEN "mirror the prospect" ELSE "ask before pitching"

\* A learning reply: content a string or not, JSON or not, with a patterns
\* array or without.
NoPatterns == [isString |-> TRUE, validJson |-> TRUE, hasPatterns |-> FALSE, patterns |-> <<>>]

LearningReplies ==
  {[isString |-> FALSE, validJson |-> FALSE, hasPatterns |-> FALSE, patterns |-> <<>>],
   [isString |-> TRUE, validJson |-> FALSE, hasPatterns |-> FALSE, patterns |-> <<>>],
   NoPatterns}
  \cup {[isString |-> TRUE, validJson |-> TRUE, hasPatterns |-> TRUE,
         patterns |-> [i \in 1..n |-> Pattern(i)]] : n \in 0..MaxLearned}

\* Line 544: JSON.parse of the content, of '{}' when it is no string.
ParseLearningReply(reply) ==
  IF ~reply.isString THEN [throws |-> FALSE, value |-> NoPatterns]
  ELSE IF ~reply.validJson THEN [throws |-> TRUE, value |-> NoPatterns]
  ELSE [throws |-> FALSE, value |-> reply]

\* The chunk of a pattern, stored with the column default for its relevance.
LearnedChunkDefaultScore(u, pattern) ==
  [userId |-> u, sourceId |-> ConversationSource, category |-> "general_wisdom",
   content |-> pattern, relevanceScore |-> DefaultRelevance, brainType |-> "both"]

\* Lines 552-560: the chunk stored for one pattern.
LearnedChunk(u, pattern) ==
  [userId |-> u, sourceId |-> ConversationSource, category |-> "general_wisdom",
   content |-> pattern, relevanceScore |-> LearnedRelevance, brainType |-> "both"]

UpdateOutcomeFailures ==
  {"none", "updateProspect", "getProspect", "getChatMessages",
   "createKnowledgeChunk", "updateBrainStats"}

NominalLearning ==
  [isString |-> TRUE, validJson |-> TRUE, hasPatterns |-> TRUE,
   patterns |-> <<Pattern(1)>>]

\* What the environment does during one request: which store call throws
\* (failIndex: at which pattern, for createKnowledgeChunk), how the learning
\* call ends and what it answers.  One thing goes wrong at a time.
UpdateOutcomeEnvs ==
  {[failAt |-> f, failIndex |-> k, res |-> OkAtOnce, reply |-> rp] :
     f \in UpdateOutcomeFailures, k \in 1..MaxLearned,
     rp \in {NominalLearning} \cup {r \in LearningReplies : Len(r.patterns) = MaxLearned}}
  \cup {[failAt |-> "none", failIndex |-> 1, res |-> res, reply |-> rp] :
          res \in ChatLLMResults, rp \in LearningReplies}

\* Lines 468-574 as a function of the tables and the environment: the tables
\* after the request and its response.
UpdateOutcomeRun(ps, ms, B, stats, its, u, pid, outcome, env) ==
  LET start == [prospects |-> ps, chunks |-> B, brainStats |-> stats,
                ok |-> FALSE, error |-> NoError, llmCalls |-> 0,
                transcript |-> <<>>]
      updated == [start EXCEPT !.prospects =
                    UpdateProspect(ps, pid, u, [outcome |-> outcome])]
      success == [updated EXCEPT !.ok = TRUE]
      called == [success EXCEPT !.llmCalls = env.res.invocations,
                                !.transcript = AllMessages(ms, pid, u)]
      learning == ParseLearningReply(env.reply)
      n == Len(learning.value.patterns)
      k == IF env.failAt = "createKnowledgeChunk" /\ env.failIndex <= n
           THEN env.failIndex - 1 ELSE n
      B1 == B (+) SeqToBag([i \in 1..k |-> LearnedChunk(u, learning.value.patterns[i])])
  IN IF env.failAt = "updateProspect" THEN [start EXCEPT !.error = ErrDb]
     ELSE IF outcome # "won" THEN success
     ELSE IF env.failAt = "getProspect" THEN [updated EXCEPT !.error = ErrDb]
     ELSE IF ~HasProspect(ps, pid, u) THEN success
     ELSE IF env.failAt = "getChatMessages" THEN [updated EXCEPT !.error = ErrDb]
     ELSE IF GetChatMessages(ms, pid, u) = {} THEN success
     \* the try block: every throw from here on is logged and dropped
     ELSE IF ~env.res.ok THEN called
     ELSE IF learning.throws \/ ~learning.value.hasPatterns THEN called
     ELSE IF k < n \/ env.failAt = "updateBrainStats"
     THEN [called EXCEPT !.chunks = B1]
     ELSE [called EXCEPT !.chunks = B1,
                         !.brainStats = UpdateBrainStats(stats, its, B1, u)]

UpdateOutcome(u, pid, outcome, env) ==
  LET out == UpdateOutcomeRun(prospects, chatMessages, chunks, brainStats, items,
                              u, pid, outcome, env)
  IN /\ BagCardinality(OfSource(out.chunks, ConversationSource, u)) <= MaxLearned
     /\ prospects' = out.prospects
     /\ chunks' = out.chunks
     /\ brainStats' = out.brainStats
     /\ UNCHANGED <<items, nextItemId, nextProspectId, chatMessages, nextMessageId,
                    aiSuggestions, runs, retry>>

\* ----------------------------------------------------------- chat.sendInbound
\* The content of the stage reply and what trim().toLowerCase() makes of it.
StageContents ==
  {[isString |-> FALSE, text |-> ""],
   [isString |-> TRUE, text |-> "pain_discovery"],
   [isString |-> TRUE, text |-> " Expert_Close\n"],
   [isString |-> TRUE, text |-> "Stage: warm_rapport"],
   [isString |-> TRUE, text |-> "objection_resistance"],
   [isString |-> TRUE, text |-> "constructor"]}

TrimLower(text) ==
  CASE text = " Expert_Close\n" -> "expert_close"
    [] text = "Stage: warm_rapport" -> "stage: warm_rapport"
    [] OTHER -> text

\* Lines 684-685.
DetectedStage(content) ==
  IF content.isString THEN TrimLower(content.text) ELSE "general"

\* Lines 103-112: the own properties of the categoryMap object literal.
CategoryMap ==
  [first_contact |-> <<"opening_lines", "rapport_building", "psychology_insight">>,
   warm_rapport |-> <<"rapport_building", "pain_discovery", "language_pattern">>,
   pain_discovery |-> <<"pain_discovery", "emotional_trigger", "psychology_insight">>,
   objection_resistance |-> <<"objection_handling", "trust_building", "psychology_insight">>,
   trust_reinforcement |-> <<"trust_building", "language_pattern", "psychology_insight">>,
   referral_to_expert |-> <<"closing_techniques", "trust_building">>,
   expert_close |-> <<"closing_techniques", "objection_handling", "psychology_insight">>,
   general |-> <<"general_wisdom", "language_pattern", "psychology_insight">>]

\* Line 103: categoryMap is a plain object, so a lookup of one of these keys
\* finds a member of Object.prototype, a function or an object, which is
\* truthy and is no array.
ObjectPrototypeKeys == {"constructor", "__proto__", "toString"}

\* Line 113: categoryMap[contextType] || categoryMap["general"].  The value
\* returned is an array of categories or something else.
GetRelevantCategories(contextType) ==
  IF contextType \in DOMAIN CategoryMap
  THEN [isArray |-> TRUE, value |-> CategoryMap[contextType]]
  ELSE IF contextType \in ObjectPrototypeKeys
  THEN [isArray |-> FALSE, value |-> <<>>]
  ELSE [isArray |-> TRUE, value |-> CategoryMap["general"]]

\* The eight properties the response schema of the suggestion call requires
\* (lines 776-795).
RequiredFields ==
  {"contextType", "detectedTone", "primaryReply", "alternativeReply",
   "softReply", "whyThisWorks", "knowledgeUsed", "pushyWarning"}

\* The JSON value of a suggestion reply: null, or an object with some of the
\* properties; contextType is the value of that property when it is there.
NoAnalysis == [isNull |-> FALSE, fields |-> {}, contextType |-> "undefined"]

CompleteAnalysis(contextType) ==
  [isNull |-> FALSE, fields |-> RequiredFields, contextType |-> contextType]

AnalysisWithout(f) ==
  [isNull |-> FALSE, fields |-> RequiredFields \ {f},
   contextType |-> IF f = "contextType" THEN "undefined" ELSE "expert_close"]

SuggestionReplies ==
  {[isString |-> FALSE, validJson |-> FALSE, value |-> NoAnalysis],
   [isString |-> TRUE, validJson |-> FALSE, value |-> NoAnalysis],
   [isString |-> TRUE, validJson |-> TRUE, value |-> NoAnalysis],
   [isString |-> TRUE, validJson |-> TRUE, value |-> [NoAnalysis EXCEPT !.isNull = TRUE]]}
  \cup {[isString |-> TRUE, validJson |-> TRUE, value |-> CompleteAnalysis(c)] :
          c \in {"pain_discovery", "expert_close", "general"}}
  \cup {[isString |-> TRUE, validJson |-> TRUE, value |-> AnalysisWithout(f)] :
          f \in RequiredFields}

NominalSuggestion ==
  [isString |-> TRUE, validJson |-> TRUE, value |-> CompleteAnalysis("expert_close")]

\* Lines 800-801: JSON.parse of the content, of '{}' when it is no string.
ParseSuggestionReply(reply) ==
  IF ~reply.isString THEN [throws |-> FALSE, value |-> NoAnalysis]
  ELSE IF ~reply.validJson THEN [throws |-> TRUE, value |-> NoAnalysis]
  ELSE [throws |-> FALSE, value |-> reply.value]

SendInboundFailures ==
  {"none", "getProspect", "getOrCreateBrainStats", "context", "search",
   "createChatMessage", "touchProspect", "updateProspect",
   "primary", "alternative", "soft"}

\* What the environment does during one request: which store call throws,
\* how the two generation calls end and what they answer.  One thing goes
\* wrong at a time.
SendInboundEnvs ==
  {[failAt |-> f, stageRes |-> OkAtOnce, stageContent |-> sc,
    res |-> OkAtOnce, reply |-> NominalSuggestion] :
     f \in SendInboundFailures, sc \in StageContents}
  \cup {[failAt |-> "none", stageRes |-> sr, stageContent |-> sc,
         res |-> res, reply |-> rp] :
          sr \in ChatLLMResults, sc \in {c \in StageContents : c.text = "pain_discovery"},
          res \in ChatLLMResults, rp \in SuggestionReplies}

SuggestionTypes == <<"primary", "alternative", "soft">>

\* The property of the analysis each suggestion takes its text from.
TextField(type) ==
  CASE type = "primary" -> "primaryReply"
    [] type = "alternative" -> "alternativeReply"
    [] OTHER -> "softReply"

\* Lines 807-836 from the k-th createAiSuggestion on: a suggestionText that
\* is undefined violates the NOT NULL column.
RECURSIVE CreateAiSuggestions(_, _, _, _, _, _)
CreateAiSuggestions(out, k, u, pid, analysis, failAt) ==
  IF k > Len(SuggestionTypes) THEN [out EXCEPT !.ok = TRUE]
  ELSE IF failAt = SuggestionTypes[k] THEN [out EXCEPT !.error = ErrDb]
  ELSE IF TextField(SuggestionTypes[k]) \notin analysis.fields
  THEN [out EXCEPT !.error = ErrConstraint]
  ELSE CreateAiSuggestions(
         [out EXCEPT !.aiSuggestions = @ \cup
            {[messageId |-> out.messageId, prospectId |-> pid, userId |-> u,
              suggestionType |-> SuggestionTypes[k],
              suggestionText |-> TextField(SuggestionTypes[k])]}],
         k + 1, u, pid, analysis, failAt)

\* Lines 664-847 as a function of the tables and the environment: the tables
\* after the request and its response.
SendInboundRun(ps, ms, nm, sg, stats, u, pid, env) ==
  LET start == [prospects |-> ps, chatMessages |-> ms, nextMessageId |-> nm,
                aiSuggestions |-> sg, brainStats |-> stats,
                ok |-> FALSE, error |-> NoError, llmCalls |-> 0,
                detectedStage |-> "none", messageId |-> NoId,
                categories |-> [isArray |-> TRUE, value |-> <<>>]]
      gated == [start EXCEPT !.brainStats = GetOrCreateBrainStats(stats, u)]
      staged == [gated EXCEPT !.llmCalls = env.stageRes.invocations,
                              !.detectedStage = DetectedStage(env.stageContent),
                              !.categories =
                                GetRelevantCategories(DetectedStage(env.stageContent))]
      stored == [staged EXCEPT !.chatMessages = ms \cup
                                  {NewChatMessage(nm, pid, u, "inbound")},
                               !.nextMessageId = nm + 1, !.messageId = nm]
      touched == [stored EXCEPT !.prospects = TouchProspect(ps, pid, nm)]
      suggested == [touched EXCEPT !.llmCalls = @ + env.res.invocations]
      parsed == ParseSuggestionReply(env.reply)
      analysis == parsed.value
      moved == [suggested EXCEPT !.prospects =
                  UpdateProspect(@, pid, u, [conversationStage |-> analysis.contextType])]
  IN IF env.failAt = "getProspect" THEN [start EXCEPT !.error = ErrDb]
     ELSE IF ~HasProspect(ps, pid, u) THEN [start EXCEPT !.error = ErrProspectNotFound]
     ELSE IF env.failAt = "getOrCreateBrainStats" THEN [start EXCEPT !.error = ErrDb]
     ELSE IF gated.brainStats[u].totalChunks = 0 THEN [gated EXCEPT !.error = ErrEmptyBrain]
     ELSE IF env.failAt = "context" THEN [gated EXCEPT !.error = ErrDb]
     ELSE IF ~env.stageRes.ok
     THEN [gated EXCEPT !.error = env.stageRes.error,
                        !.llmCalls = env.stageRes.invocations]
     ELSE IF env.failAt \in {"search", "createChatMessage"}
     THEN [staged EXCEPT !.error = ErrDb]
     ELSE IF env.failAt = "touchProspect" THEN [stored EXCEPT !.error = ErrDb]
     ELSE IF ~env.res.ok THEN [suggested EXCEPT !.error = env.res.error]
     ELSE IF parsed.throws THEN [suggested EXCEPT !.error = ErrSyntax]
     ELSE IF analysis.isNull THEN [suggested EXCEPT !.error = ErrType]
     ELSE IF env.failAt = "updateProspect" THEN [suggested EXCEPT !.error = ErrDb]
     \* .set({ conversationStage: undefined }) has nothing to set
     ELSE IF "contextType" \notin analysis.fields
     THEN [suggested EXCEPT !.error = ErrNoValues]
     \* the column is an enum of the seven stages
     ELSE IF analysis.contextType \notin ConversationStages
     THEN [suggested EXCEPT !.error = ErrTruncated]
     ELSE CreateAiSuggestions(moved, 1, u, pid, analysis, env.failAt)

SendInbound(u, pid, env) ==
  LET out == SendInboundRun(prospects, chatMessages, nextMessageId, aiSuggestions,
                            brainStats, u, pid, env)
  IN /\ nextMessageId <= MaxMessages
     /\ prospects' = out.prospects
     /\ chatMessages' = out.chatMessages
     /\ nextMessageId' = out.nextMessageId
     /\ aiSuggestions' = out.aiSuggestions
     /\ brainStats' = out.brainStats
     /\ UNCHANGED <<items, nextItemId, chunks, nextProspectId, runs, retry>>

\* --------------------------------------------------------------- prospect.get
\* Lines 286-291: a read of the prospect and of its messages.  failAt names
\* the store call that throws.
ProspectGetRun(ps, ms, u, pid, failAt) ==
  LET start == [prospects |-> ps, chatMessages |-> ms, ok |-> FALSE,
                error |-> NoError, llmCalls |-> 0, messages |-> {}]
  IN IF failAt = "getProspect" THEN [start EXCEPT !.error = ErrDb]
     ELSE IF ~HasProspect(ps, pid, u) THEN [start EXCEPT !.error = ErrProspectNotFound]
     ELSE IF failAt = "getChatMessages" THEN [start EXCEPT !.error = ErrDb]
     ELSE [start EXCEPT !.ok = TRUE, !.messages = GetChatMessages(ms, pid, u)]

\* A query: it leaves every table as it is.
ProspectGet(u, pid, failAt) ==
  LET out == ProspectGetRun(prospects, chatMessages, u, pid, failAt)
  IN /\ prospects' = out.prospects
     /\ chatMessages' = out.chatMessages
     /\ UNCHANGED <<kbVars, nextProspectId, nextMessageId, aiSuggestions, runs, retry>>

\* ---------------------------------------------------- prospect.analyzeProfile
\* choices[0].message.content of the analysis reply: no string, no JSON, the
\* JSON null, an object without the three properties, an object with them.
ProfileReplies == {"notString", "invalidJson", "null", "empty", "json"}

ProfileFailures == {"none", "getProspect", "getWorkspace", "search", "updateProspect"}

ProfileEnvs ==
  {[failAt |-> f, res |-> OkAtOnce, reply |-> "json"] : f \in ProfileFailures}
  \cup {[failAt |-> "none", res |-> res, reply |-> rp] :
          res \in ChatLLMResults, rp \in ProfileReplies}

\* Lines 390-458 as a function of the table and the environment.  A content
\* that is no string is parsed as '{}'; .set() of three undefined values has
\* nothing to set.
AnalyzeProfileRun(ps, u, pid, env) ==
  LET start == [prospects |-> ps, ok |-> FALSE, error |-> NoError, llmCalls |-> 0,
                categories |-> <<>>]
      searched == [start EXCEPT !.categories = SearchCategories.analyzeProfile]
      called == [searched EXCEPT !.llmCalls = env.res.invocations]
  IN IF env.failAt = "getProspect" THEN [start EXCEPT !.error = ErrDb]
     ELSE IF ~HasProspect(ps, pid, u) THEN [start EXCEPT !.error = ErrProspectNotFound]
     ELSE IF ~ps[pid].hasUrls THEN [start EXCEPT !.error = ErrNoUrls]
     ELSE IF env.failAt = "getWorkspace" THEN [start EXCEPT !.error = ErrDb]
     ELSE IF env.failAt = "search" THEN [searched EXCEPT !.error = ErrDb]
     ELSE IF ~env.res.ok THEN [called EXCEPT !.error = env.res.error]
     ELSE IF env.reply = "invalidJson" THEN [called EXCEPT !.error = ErrSyntax]
     ELSE IF env.reply = "null" THEN [called EXCEPT !.error = ErrType]
     ELSE IF env.failAt = "updateProspect" THEN [called EXCEPT !.error = ErrDb]
     ELSE IF env.reply \in {"notString", "empty"} THEN [called EXCEPT !.error = ErrNoValues]
     ELSE [called EXCEPT !.ok = TRUE,
                         !.prospects = UpdateProspect(ps, pid, u,
                                         [profileAnalysis |-> "stored"])]

AnalyzeProfile(u, pid, env) ==
  /\ prospects' = AnalyzeProfileRun(prospects, u, pid, env).prospects
  /\ UNCHANGED <<kbVars, nextProspectId, chatMessages, nextMessageId,
                 aiSuggestions, runs, retry>>

\* ------------------------------------------------- chat.refineExpertMessage
RefineFailures ==
  {"none", "getProspect", "getWorkspace", "context", "search",
   "createChatMessage", "touchProspect"}

RefineEnvs ==
  {[failAt |-> f, res |-> OkAtOnce] : f \in RefineFailures}
  \cup {[failAt |-> "none", res |-> res] : res \in ChatLLMResults}

\* Lines 899-964 as a function of the tables and the environment: the
\* refined message, or the expert's own when the reply has none, is stored as
\* an outbound message of the prospect.
RefineExpertMessageRun(ps, ms, nm, u, pid, env) ==
  LET start == [prospects |-> ps, chatMessages |-> ms, nextMessageId |-> nm,
                ok |-> FALSE, error |-> NoError, llmCalls |-> 0, messageId |-> NoId,
                categories |-> <<>>]
      searched == [start EXCEPT !.categories = SearchCategories.refineExpertMessage]
      called == [searched EXCEPT !.llmCalls = env.res.invocations]
      stored == [called EXCEPT !.chatMessages = ms \cup
                                  {NewThreadMessage(nm, pid, u, "outbound", "expert")},
                               !.nextMessageId = nm + 1]
  IN IF env.failAt = "getProspect" THEN [start EXCEPT !.error = ErrDb]
     ELSE IF ~HasProspect(ps, pid, u) THEN [start EXCEPT !.error = ErrProspectNotFound]
     ELSE IF env.failAt \in {"getWorkspace", "context"}
     THEN [start EXCEPT !.error = ErrDb]
     ELSE IF env.failAt = "search" THEN [searched EXCEPT !.error = ErrDb]
     ELSE IF ~env.res.ok THEN [called EXCEPT !.error = env.res.error]
     ELSE IF env.failAt = "createChatMessage" THEN [called EXCEPT !.error = ErrDb]
     ELSE IF env.failAt = "touchProspect" THEN [stored EXCEPT !.error = ErrDb]
     ELSE [stored EXCEPT !.prospects = TouchProspect(ps, pid, nm),
                         !.ok = TRUE, !.messageId = nm]

RefineExpertMessage(u, pid, env) ==
  LET out == RefineExpertMessageRun(prospects, chatMessages, nextMessageId, u, pid, env)
  IN /\ nextMessageId <= MaxMessages
     /\ prospects' = out.prospects
     /\ chatMessages' = out.chatMessages
     /\ nextMessageId' = out.nextMessageId
     /\ UNCHANGED <<kbVars, nextProspectId, aiSuggestions, runs, retry>>

\* ------------------------------------------------------------ prospect.delete
\* The statement of a delete request that throws, if one does.
ProspectDeleteFailures == {"none", "messages", "suggestions", "prospects"}

\* db.deleteProspect (db.ts 240-250): the messages and the suggestions go by
\* prospectId alone, the prospect row by id and owner.
ProspectDeleteRun(ps, ms, sg, u, pid, failAt) ==
  LET start == [prospects |-> ps, chatMessages |-> ms, aiSuggestions |-> sg,
                ok |-> FALSE, error |-> ErrDb]
      noMessages == [start EXCEPT !.chatMessages = {m \in ms : m.prospectId # pid}]
      noSuggestions == [noMessages EXCEPT
                          !.aiSuggestions = {g \in sg : g.prospectId # pid}]
  IN IF failAt = "messages" THEN start
     ELSE IF failAt = "suggestions" THEN noMessages
     ELSE IF failAt = "prospects" THEN noSuggestions
     ELSE [noSuggestions EXCEPT
             !.prospects = IF HasProspect(ps, pid, u)
                           THEN [ps EXCEPT ![pid] = NoProspect] ELSE ps,
             !.ok = TRUE, !.error = NoError]

\* Lines 577-582.
ProspectDelete(u, pid, failAt) ==
  LET out == ProspectDeleteRun(prospects, chatMessages, aiSuggestions, u, pid, failAt)
  IN /\ prospects' = out.prospects
     /\ chatMessages' = out.chatMessages
     /\ aiSuggestions' = out.aiSuggestions
     /\ UNCHANGED <<kbVars, nextProspectId, nextMessageId, runs, retry>>

\* ----------------------------------------------------------- workspace.delete
WorkspaceDeleteFailures == {"none", "select", "messages", "suggestions", "prospects"}

\* db.deleteWorkspace (db.ts 184-200) on the tables of the model: the
\* prospects of the workspace are selected by workspaceId alone; the messages
\* and suggestions of each go, then the prospects of the workspace, then the
\* workspace row of the caller.  A statement of the loop that throws does so
\* at the first prospect.
WorkspaceDeleteRun(ps, ms, sg, u, workspaceId, failAt) ==
  LET start == [prospects |-> ps, chatMessages |-> ms, aiSuggestions |-> sg,
                ok |-> FALSE, error |-> ErrDb]
      workspaceProspects ==
        {p \in ProspectIds : ps[p].exists /\ ps[p].workspaceId = workspaceId}
      first == {p \in workspaceProspects : \A q \in workspaceProspects : p <= q}
      emptied == [start EXCEPT
                    !.chatMessages = {m \in ms : m.prospectId \notin workspaceProspects},
                    !.aiSuggestions = {g \in sg : g.prospectId \notin workspaceProspects}]
  IN IF failAt = "select" \/ (failAt = "messages" /\ first # {}) THEN start
     ELSE IF failAt = "suggestions" /\ first # {}
     THEN [start EXCEPT !.chatMessages = {m \in ms : m.prospectId \notin first}]
     ELSE IF failAt = "prospects" THEN emptied
     ELSE [emptied EXCEPT
             !.prospects = [p \in ProspectIds |->
                              IF p \in workspaceProspects THEN NoProspect ELSE ps[p]],
             !.ok = TRUE, !.error = NoError]

\* Lines 265-270.
WorkspaceDelete(u, workspaceId, failAt) ==
  LET out == WorkspaceDeleteRun(prospects, chatMessages, aiSuggestions, u,
                                workspaceId, failAt)
  IN /\ prospects' = out.prospects
     /\ chatMessages' = out.chatMessages
     /\ aiSuggestions' = out.aiSuggestions
     /\ UNCHANGED <<kbVars, nextProspectId, nextMessageId, runs, retry>>

\* ------------------------------------------------ knowledgeBase.setBrainType
\* The statement of a setBrainType request that throws, if one does.
SetBrainTypeFailures == {"none", "updateKnowledgeBaseItem", "getKnowledgeChunksBySource"}

\* Lines 1288-1299 as a function of the tables: the brainType of the item is
\* written, the chunks of the source are read, and the loop over them has an
\* empty body, so no chunk is written.
SetBrainTypeRun(its, B, u, id, brainType, failAt) ==
  LET start == [items |-> its, chunks |-> B, ok |-> FALSE, error |-> ErrDb]
      updated == [start EXCEPT !.items =
                    UpdateKnowledgeBaseItem(its, id, u, [brainType |-> brainType])]
  IN IF failAt = "updateKnowledgeBaseItem" THEN start
     ELSE IF failAt = "getKnowledgeChunksBySource" THEN updated
     ELSE [updated EXCEPT !.ok = TRUE, !.error = NoError]

SetBrainType(u, id, brainType, failAt) ==
  LET out == SetBrainTypeRun(items, chunks, u, id, brainType, failAt)
  IN /\ items' = out.items
     /\ chunks' = out.chunks
     /\ UNCHANGED <<nextItemId, brainStats, chatVars, runs, retry>>

\* ----------------------------------------------------- callLLMWithRetry alone
\* A call with any number of retries against any behaviour of invokeLLM.
RetryCall(maxRetries, outs) ==
  /\ retry.pc = "idle"
  /\ retry' = [retry EXCEPT !.pc = "called", !.maxRetries = maxRetries, !.outs = outs]
  /\ UNCHANGED <<kbVars, chatVars, runs>>

RetryReturn ==
  /\ retry.pc = "called"
  /\ retry' = [retry EXCEPT !.pc = "returned",
                            !.out = CallLLMWithRetry(retry.outs, retry.maxRetries)]
  /\ UNCHANGED <<kbVars, chatVars, runs>>

RetryReset ==
  /\ retry.pc = "returned"
  /\ retry' = RetryIdle
  /\ UNCHANGED <<kbVars, chatVars, runs>>

\* --------------------------------------------------------- specifications
\* The ingestion requests of section 5's scheduling model: one request at a
\* time, each run to completion or failure, stepping through its awaits.
Idle == \A r \in Runs : ~InFlight(r)

Next ==
  \/ \E u \in Users : Idle /\ AddUrl(u, YoutubeUrl)
  \/ \E u \in Users, id \in ItemIds : Idle /\ ProcessItemLookup(1, u, id)
  \/ ProcessItemStep(1)
  \/ \E u \in Users, id \in ItemIds, failAt \in 0..3 :
       Idle /\ KnowledgeBaseDelete(u, id, failAt)
  \/ \E u \in Users :
       Idle /\ ProspectCreate(u, u, TRUE, FALSE, FALSE, "none", OkAtOnce, "json", TRUE)

Spec == Init /\ [][Next]_vars

\* Two processItem requests that overlap: each slot serves one request, and
\* the requests interleave at every await.
NextOverlap ==
  \/ \E u \in Users : AddUrl(u, YoutubeUrl)
  \/ \E r \in Runs, u \in Users, id \in ItemIds :
       runs[r].n = 0 /\ ProcessItemLookup(r, u, id)
  \/ \E r \in Runs : ProcessItemStep(r)

SpecOverlap == Init /\ [][NextOverlap]_vars

\* The conversation side: prospects, messages, learning from won
\* conversations, suggestions; each request runs to its end.
NextChat ==
  \/ \E u \in Users, isReEngagement \in BOOLEAN, failAt \in ProspectCreateFailures,
        res \in ChatLLMResults, reply \in ImportReplies, stored \in BOOLEAN :
       ProspectCreate(u, u, TRUE, isReEngagement, TRUE, failAt, res, reply, stored)
  \/ \E u \in Users, isReEngagement \in BOOLEAN :
       ProspectCreate(u, u, TRUE, isReEngagement, FALSE, "none", OkAtOnce, "json", TRUE)
  \/ \E u \in Users, pid \in ProspectIds,
        failAt \in {"none", "createChatMessage", "touchProspect"} :
       SendOutbound(u, pid, failAt)
  \/ \E u \in Users, pid \in ProspectIds, outcome \in {"active", "lost", "ghosted"},
        failAt \in {"none", "updateProspect"} :
       UpdateOutcome(u, pid, outcome,
                     [failAt |-> failAt, failIndex |-> 1, res |-> OkAtOnce,
                      reply |-> NominalLearning])
  \/ \E u \in Users, pid \in ProspectIds, env \in UpdateOutcomeEnvs :
       UpdateOutcome(u, pid, "won", env)
  \/ \E u \in Users, pid \in ProspectIds, env \in SendInboundEnvs :
       SendInbound(u, pid, env)
  \/ \E u \in Users, failAt \in 0..3 :
       KnowledgeBaseDelete(u, ConversationSource, failAt)

SpecChat == Init /\ [][NextChat]_vars

\* A delete request served while a processItem request is between two of its
\* awaits.
NextDelete ==
  \/ \E u \in Users : Idle /\ AddUrl(u, YoutubeUrl)
  \/ \E u \in Users, id \in ItemIds : Idle /\ ProcessItemLookup(1, u, id)
  \/ ProcessItemStep(1)
  \/ \E u \in Users, id \in ItemIds, failAt \in 0..3 :
       KnowledgeBaseDelete(u, id, failAt)

SpecDelete == Init /\ [][NextDelete]_vars

\* The requests that name a prospect by its id, each run to its end.  Every
\* user has one workspace, which carries the user's id.
NextProspect ==
  \/ \E u \in Users, workspaceId \in Users, hasUrls \in BOOLEAN, imported \in BOOLEAN :
       ProspectCreate(u, workspaceId, hasUrls, FALSE, imported, "none", OkAtOnce,
                      "json", FALSE)
  \/ \E u \in Users, pid \in ProspectIds,
        failAt \in {"none", "createChatMessage", "touchProspect"} :
       SendOutbound(u, pid, failAt)
  \/ \E u \in Users, pid \in ProspectIds,
        failAt \in {"none", "getProspect", "getChatMessages"} :
       ProspectGet(u, pid, failAt)
  \/ \E u \in Users, pid \in ProspectIds, env \in ProfileEnvs :
       AnalyzeProfile(u, pid, env)
  \/ \E u \in Users, pid \in ProspectIds, env \in RefineEnvs :
       RefineExpertMessage(u, pid, env)
  \/ \E u \in Users, pid \in ProspectIds, failAt \in ProspectDeleteFailures :
       ProspectDelete(u, pid, failAt)
  \/ \E u \in Users, workspaceId \in Users, failAt \in WorkspaceDeleteFailures :
       WorkspaceDelete(u, workspaceId, failAt)

SpecProspect == Init /\ [][NextProspect]_vars

\* Links of every kind are added; one processItem request is served.
NextAddUrl ==
  \/ \E u \in Users, url \in UrlInputs : Idle /\ AddUrl(u, url)
  \/ \E u \in Users, id \in ItemIds : runs[1].n = 0 /\ ProcessItemLookup(1, u, id)
  \/ ProcessItemStep(1)

SpecAddUrl == Init /\ [][NextAddUrl]_vars

\* callLLMWithRetry on its own.
NextRetry ==
  \/ \E maxRetries \in 0..MaxRetriesArg :
       \E outs \in [1..(maxRetries + 1) -> InvokeOutcomes] : RetryCall(maxRetries, outs)
  \/ RetryReturn
  \/ RetryReset

SpecRetry == Init /\ [][NextRetry]_vars

\* ------------------------------------------------------------------ claims
\* The step with which the request of slot r returns success.
Returns(r) ==
  runs[r].pc = "return" /\ runs'[r].pc = "done" /\ runs'[r].result = "ok"

\* The rows a run built from the chunks of its reply.
RunChunks(run) ==
  SeqToBag(ChunksToInsert(run.user, run.id, run.brainType, run.chunksData.chunks))

\* C1: whenever a processItem run returns successfully, the item has status
\* ready and progress 100 and its source has between 0 and 25 chunks stored,
\* whatever the chunk reply contained.
C1_ReadyWithAtMost25Chunks ==
  [][\A r \in Runs :
       Returns(r) =>
         /\ items'[runs[r].id].status = "ready"
         /\ items'[runs[r].id].progress = 100
         /\ BagCardinality(OfSource(chunks', runs[r].id, runs[r].user))
              \in 0..PromptMaxChunks]_vars

\* A run has returned success and its source holds 26 chunks.
C1_Witness ==
  \E r \in Runs :
    /\ runs[r].pc = "done" /\ runs[r].result = "ok"
    /\ items[runs[r].id].status = "ready"
    /\ BagCardinality(OfSource(chunks, runs[r].id, runs[r].user)) = PromptMaxChunks + 1

\* C2: when processItem returns successfully on an item that already had
\* chunks, the chunks stored for the source are exactly the rows of the new
\* run: none of the earlier run is left, none is there twice.
C2_ReprocessReplacesChunks ==
  [][\A r \in Runs :
       (Returns(r) /\ runs[r].prior > 0) =>
         OfSource(chunks', runs[r].id, runs[r].user) = RunChunks(runs[r])]_vars

\* A second run has returned on a source that had chunks, with a reply that
\* holds chunks, and the source holds just those.
C2_Witness ==
  \E r \in Runs :
    /\ runs[r].pc = "done" /\ runs[r].result = "ok"
    /\ runs[r].prior > 0
    /\ Len(runs[r].chunksData.chunks) > 0
    /\ OfSource(chunks, runs[r].id, runs[r].user) = RunChunks(runs[r])

\* C3: when two overlapping processItem requests on the same item have both
\* returned, the chunks stored for the source are those of exactly one of
\* the two runs.
C3_OverlappingRunsDoNotMix ==
  [][\A r, o \in Runs :
       (/\ r # o
        /\ Returns(r)
        /\ runs[o].pc = "done" /\ runs[o].result = "ok"
        /\ runs[o].id = runs[r].id /\ runs[o].user = runs[r].user) =>
         \/ OfSource(chunks', runs[r].id, runs[r].user) = RunChunks(runs[r])
         \/ OfSource(chunks', runs[r].id, runs[r].user) = RunChunks(runs[o])]_vars

\* Both requests have returned and the source holds the chunks of both.
C3_Witness ==
  /\ \A r \in Runs : runs[r].pc = "done" /\ runs[r].result = "ok"
  /\ runs[1].id = runs[2].id /\ runs[1].user = runs[2].user
  /\ Len(runs[1].chunksData.chunks) > 0 /\ Len(runs[2].chunksData.chunks) > 0
  /\ OfSource(chunks, runs[1].id, runs[1].user) = RunChunks(runs[1]) (+) RunChunks(runs[2])

\* The stored rollup of u says what u's chunks are.
StatsMatchChunks(u) ==
  /\ brainStats[u].totalChunks = BagCardinality(OfUser(chunks, u))
  /\ \A c \in Categories :
       brainStats[u].categoryBreakdown[c] = CountCategory(chunks, u, c)

\* C4: once every operation that adds or removes chunks has finished,
\* succeeded or failed, the stored totalChunks and categoryBreakdown of every
\* owner equal the number and the per-category counts of the owner's chunks.
C4_StatsMatchChunks == Idle => \A u \in Users : StatsMatchChunks(u)

\* Where a re-processing run that fails at a generation call leaves the
\* owner: no chunk, and a rollup that still counts some.
StaleAfterFailedRun(u) ==
  /\ Idle
  /\ \E id \in ItemIds :
       /\ HasItem(items, id, u)
       /\ items[id].status = "failed" /\ items[id].errorMessage = ErrUpstream
  /\ OfUser(chunks, u) = EmptyBag
  /\ brainStats[u].totalChunks > 0

C4_Witness == \E u \in Users : StaleAfterFailedRun(u) /\ ~StatsMatchChunks(u)

\* What a sendInbound request of u for pid would do now, in environment env.
SendInboundNow(u, pid, env) ==
  SendInboundRun(prospects, chatMessages, nextMessageId, aiSuggestions,
                 brainStats, u, pid, env)

\* C5: for an owner with zero chunks, after any earlier operations, a
\* sendInbound request (for a prospect of the owner, every store call
\* answering) fails with the empty-brain error and makes no generation call.
C5_EmptyBrainIsRefused ==
  \A u \in Users, pid \in ProspectIds :
    (Idle /\ HasProspect(prospects, pid, u) /\ OfUser(chunks, u) = EmptyBag) =>
      \A env \in SendInboundEnvs :
        env.failAt = "none" =>
          /\ ~SendInboundNow(u, pid, env).ok
          /\ SendInboundNow(u, pid, env).error = ErrEmptyBrain
          /\ SendInboundNow(u, pid, env).llmCalls = 0

\* Nothing goes wrong: both calls answer at once, the reply is complete.
NominalInbound ==
  [failAt |-> "none", stageRes |-> OkAtOnce,
   stageContent |-> [isString |-> TRUE, text |-> "pain_discovery"],
   res |-> OkAtOnce, reply |-> NominalSuggestion]

\* An owner without a chunk, after a failed re-processing run, whose request
\* gets through: two generation calls and a success.
C5_Witness ==
  \E u \in Users, pid \in ProspectIds :
    /\ StaleAfterFailedRun(u)
    /\ HasProspect(prospects, pid, u)
    /\ SendInboundNow(u, pid, NominalInbound).ok
    /\ SendInboundNow(u, pid, NominalInbound).llmCalls = 2

AllFail(outs) == \A i \in DOMAIN outs : outs[i] # "ok"

\* C6: with the default of 3 attempts, two failures and then a success make
\* exactly 3 invocations and return the third result; when every invocation
\* fails, exactly maxRetries + 1 invocations are made and the error raised is
\* the classified error of the last one.
C6_RetryCountsAndLastError ==
  retry.pc = "returned" =>
    /\ (/\ retry.maxRetries = DefaultMaxRetries
        /\ retry.outs[1] # "ok" /\ retry.outs[2] # "ok" /\ retry.outs[3] = "ok") =>
         /\ retry.out.ok
         /\ retry.out.invocations = DefaultMaxRetries + 1
         /\ retry.out.from = DefaultMaxRetries + 1
    /\ AllFail(retry.outs) =>
         /\ ~retry.out.ok
         /\ retry.out.invocations = retry.maxRetries + 1
         /\ retry.out.error = ClassifiedError(retry.outs[retry.maxRetries + 1])

\* A default call came back from its third invocation after a thrown error
\* and a reply without choices.
C6_Witness ==
  /\ retry.pc = "returned"
  /\ retry.maxRetries = DefaultMaxRetries
  /\ retry.outs = <<"throwHtml", "noChoices", "ok">>
  /\ retry.out.ok /\ retry.out.from = DefaultMaxRetries + 1

\* The step with which the catch block of slot r ends the request.
Caught(r) == runs[r].pc = "catch" /\ runs'[r].pc = "done"

C8_FailedRequestPersistsNothing ==
  \A u \in Users, pid \in ProspectIds :
    \A env \in SendInboundEnvs :
      ~SendInboundNow(u, pid, env).ok =>
        /\ SendInboundNow(u, pid, env).chatMessages = chatMessages
        /\ SendInboundNow(u, pid, env).aiSuggestions = aiSuggestions
        /\ SendInboundNow(u, pid, env).prospects = prospects

\* C9: when sendInbound succeeds, the stage persisted on the prospect is the
\* output of the stage classifier for the message, the value the retrieval
\* categories were selected with.
C9_PersistedStageIsDetectedStage ==
  \A u \in Users, pid \in ProspectIds :
    \A env \in SendInboundEnvs :
      SendInboundNow(u, pid, env).ok =>
        SendInboundNow(u, pid, env).prospects[pid].conversationStage =
          SendInboundNow(u, pid, env).detectedStage

\* The reply lacks one of the eight properties, or is no JSON string at all.
Incomplete(reply) ==
  \/ ~reply.isString
  \/ ~reply.validJson
  \/ reply.value.isNull
  \/ reply.value.fields # RequiredFields

\* C10: when the suggestion reply lacks any of the eight required
\* properties, or its content is no JSON string, sendInbound fails and
\* persists no suggestion row.
C10_IncompleteReplyIsRefused ==
  \A u \in Users, pid \in ProspectIds :
    \A env \in SendInboundEnvs :
      Incomplete(env.reply) =>
        /\ ~SendInboundNow(u, pid, env).ok
        /\ SendInboundNow(u, pid, env).aiSuggestions = aiSuggestions

\* What an updateOutcome request of u for pid would do now, in environment env.
UpdateOutcomeNow(u, pid, outcome, env) ==
  UpdateOutcomeRun(prospects, chatMessages, chunks, brainStats, items,
                   u, pid, outcome, env)

\* C11: an updateOutcome request with outcome won never fails because of the
\* pattern extractor: once the outcome update is written, whichever later
\* step throws (loading the prospect, loading its messages, the generation
\* call, parsing, inserting a chunk, recomputing the statistics), the request
\* returns success and the outcome stays persisted.
C11_ExtractorNeverFailsTheUpdate ==
  \A u \in Users, pid \in ProspectIds :
    HasProspect(prospects, pid, u) =>
      \A env \in UpdateOutcomeEnvs :
        env.failAt # "updateProspect" =>
          /\ UpdateOutcomeNow(u, pid, "won", env).ok
          /\ UpdateOutcomeNow(u, pid, "won", env).error = NoError
          /\ UpdateOutcomeNow(u, pid, "won", env).prospects[pid].outcome = "won"

\* A prospect with a stored message whose won update is written and whose
\* request then fails at the load of the messages, while a throw inside the
\* try block (the generation call failing on every attempt) is swallowed.
C11_Witness ==
  \E u \in Users, pid \in ProspectIds :
    /\ HasProspect(prospects, pid, u)
    /\ GetChatMessages(chatMessages, pid, u) # {}
    /\ \E env \in UpdateOutcomeEnvs :
         /\ env.failAt = "getChatMessages"
         /\ ~UpdateOutcomeNow(u, pid, "won", env).ok
         /\ UpdateOutcomeNow(u, pid, "won", env).prospects[pid].outcome = "won"
    /\ \E env \in UpdateOutcomeEnvs :
         /\ ~env.res.ok
         /\ UpdateOutcomeNow(u, pid, "won", env).ok
         /\ UpdateOutcomeNow(u, pid, "won", env).llmCalls = DefaultMaxRetries + 1

\* Line 464: the outcomes a request may name.
Outcomes == {"active", "won", "lost", "ghosted"}

\* The request gets as far as the loop over the patterns of its reply.
ReachesPatterns(u, pid, env) ==
  /\ HasProspect(prospects, pid, u)
  /\ GetChatMessages(chatMessages, pid, u) # {}
  /\ env.failAt \notin {"updateProspect", "getProspect", "getChatMessages"}
  /\ env.res.ok
  /\ env.reply.isString /\ env.reply.validJson /\ env.reply.hasPatterns

Range(s) == {s[i] : i \in DOMAIN s}

\* C13: in a sendInbound request that gets to the retrieval, the categories
\* getRelevantCategories returns for the detected stage are exactly
\* objection_handling, trust_building and psychology_insight when the stage is
\* objection_resistance, and are the general mapping, an array, for every
\* stage string that is not one of the eight keys.
C13_UnmappedStageGetsGeneralCategories ==
  \A u \in Users, pid \in ProspectIds :
    \A env \in SendInboundEnvs :
      LET out == SendInboundNow(u, pid, env)
      IN out.detectedStage # "none" =>
           /\ out.detectedStage = "objection_resistance" =>
                /\ out.categories.isArray
                /\ Range(out.categories.value) =
                     {"objection_handling", "trust_building", "psychology_insight"}
           /\ out.detectedStage \notin DOMAIN CategoryMap =>
                /\ out.categories.isArray
                /\ out.categories.value =
                     <<"general_wisdom", "language_pattern", "psychology_insight">>

\* A request whose stage reply is no key of the map and gets the general
\* mapping, and one whose stage reply names a member of Object.prototype and
\* gets no array.
C13_Witness ==
  \E u \in Users, pid \in ProspectIds :
    /\ \E env \in SendInboundEnvs :
         /\ env.failAt = "none"
         /\ SendInboundNow(u, pid, env).detectedStage = "stage: warm_rapport"
         /\ SendInboundNow(u, pid, env).categories.value = CategoryMap["general"]
         /\ SendInboundNow(u, pid, env).ok
    /\ \E env \in SendInboundEnvs :
         /\ SendInboundNow(u, pid, env).detectedStage = "constructor"
         /\ ~SendInboundNow(u, pid, env).categories.isArray

\* Item id was created and its row is gone: a delete request removed it.
Deleted(id) == id < nextItemId /\ ~items[id].exists

\* C14: once knowledgeBase.delete has removed an item, no chunk references
\* its id as source in any later state, also when a processItem run for the
\* item was in progress while the delete was served.
C14_DeletedSourceHasNoChunks ==
  \A id \in ItemIds :
    Deleted(id) => \A c \in BagToSet(chunks) : c.sourceId # id

\* A deleted item whose processItem run, in progress during the delete, has
\* returned success.
C14_Witness ==
  \E id \in ItemIds :
    /\ Deleted(id)
    /\ runs[1].pc = "done" /\ runs[1].result = "ok" /\ runs[1].id = id

\* An id no prospect and no item ever has.
MissingId == MaxProspects + MaxItems + 1

\* The outcome of each request that names a prospect, for user u and id pid:
\* the tables after it and its response, in every environment.
ProspectRequestOutcomes(u, pid) ==
  [get |-> [failAt \in {"none", "getProspect", "getChatMessages"} |->
              ProspectGetRun(prospects, chatMessages, u, pid, failAt)],
   analyzeProfile |-> [env \in ProfileEnvs |->
              AnalyzeProfileRun(prospects, u, pid, env)],
   refineExpertMessage |-> [env \in RefineEnvs |->
              RefineExpertMessageRun(prospects, chatMessages, nextMessageId, u, pid, env)],
   sendInbound |-> [env \in SendInboundEnvs |-> SendInboundNow(u, pid, env)]]

\* The response is the not-found error (the store error when the lookup
\* itself throws), no generation call was made and no table has changed.
RefusedAsNotFound(out, lookupThrows) ==
  /\ ~out.ok
  /\ out.error = IF lookupThrows THEN ErrDb ELSE ErrProspectNotFound
  /\ out.llmCalls = 0
  /\ out.prospects = prospects
  /\ "chatMessages" \in DOMAIN out => out.chatMessages = chatMessages
  /\ "aiSuggestions" \in DOMAIN out => out.aiSuggestions = aiSuggestions
  /\ "brainStats" \in DOMAIN out => out.brainStats = brainStats

\* C15: for processItem, sendInbound, prospect.get, analyzeProfile and
\* refineExpertMessage, the id of a row that belongs to another user gives
\* exactly the outcome of an id that does not exist: the same not-found
\* error, no generation call and no change to any row.
C15_ForeignIdIsAMissingId ==
  /\ \A u \in Users, pid \in ProspectIds :
       (prospects[pid].exists /\ prospects[pid].userId # u) =>
         /\ ProspectRequestOutcomes(u, pid) = ProspectRequestOutcomes(u, MissingId)
         /\ \A failAt \in {"none", "getProspect", "getChatMessages"} :
              RefusedAsNotFound(ProspectRequestOutcomes(u, pid).get[failAt],
                                failAt = "getProspect")
         /\ \A env \in ProfileEnvs :
              RefusedAsNotFound(ProspectRequestOutcomes(u, pid).analyzeProfile[env],
                                env.failAt = "getProspect")
         /\ \A env \in RefineEnvs :
              RefusedAsNotFound(ProspectRequestOutcomes(u, pid).refineExpertMessage[env],
                                env.failAt = "getProspect")
         /\ \A env \in SendInboundEnvs :
              RefusedAsNotFound(ProspectRequestOutcomes(u, pid).sendInbound[env],
                                env.failAt = "getProspect")
  /\ \A u \in Users, id \in ItemIds :
       (items[id].exists /\ items[id].userId # u) =>
         /\ LookupOutcomes(items, chunks, runs[1].n, u, id) =
              LookupOutcomes(items, chunks, runs[1].n, u, MissingId)
         /\ \A next \in LookupOutcomes(items, chunks, runs[1].n, u, id) :
              /\ next.pc = "done" /\ next.result = "error"
              /\ next.error \in {ErrItemNotFound, ErrDb}
  /\ \A r \in Runs :
       (runs[r].pc = "setProcessing" /\ items[runs[r].id].exists) =>
         items[runs[r].id].userId = runs[r].user

\* An item and a prospect of one user, a processItem request refused as not
\* found, and the other user's refine request refused where the owner's own
\* would store a message after one generation call.
C15_Witness ==
  \E u \in Users, v \in Users, pid \in ProspectIds, id \in ItemIds :
    /\ u # v
    /\ HasProspect(prospects, pid, u)
    /\ HasItem(items, id, u)
    /\ runs[1].pc = "done" /\ runs[1].error = ErrItemNotFound
    /\ LET env == [failAt |-> "none", res |-> OkAtOnce]
           mine == RefineExpertMessageRun(prospects, chatMessages, nextMessageId, u, pid, env)
           theirs == RefineExpertMessageRun(prospects, chatMessages, nextMessageId, v, pid, env)
       IN /\ mine.ok /\ mine.llmCalls = 1 /\ mine.chatMessages # chatMessages
          /\ ~theirs.ok /\ theirs.error = ErrProspectNotFound

\* The ten values of the category column.
TenCategories ==
  {"opening_lines", "rapport_building", "pain_discovery", "objection_handling",
   "trust_building", "closing_techniques", "psychology_insight",
   "language_pattern", "emotional_trigger", "general_wisdom"}

\* The rows the run of slot r is about to insert.
RowsOf(r) ==
  ChunksToInsert(runs[r].user, runs[r].id, runs[r].brainType, runs[r].chunksData.chunks)

PlatformDomains ==
  <<[platform |-> "youtube", domain |-> <<"y", "o", "u", "t", "u", "b", "e", ".", "c", "o", "m">>],
    [platform |-> "youtube", domain |-> <<"y", "o", "u", "t", "u", ".", "b", "e">>],
    [platform |-> "instagram", domain |-> <<"i", "n", "s", "t", "a", "g", "r", "a", "m", ".", "c", "o", "m">>],
    [platform |-> "tiktok", domain |-> <<"t", "i", "k", "t", "o", "k", ".", "c", "o", "m">>],
    [platform |-> "facebook", domain |-> <<"f", "a", "c", "e", "b", "o", "o", "k", ".", "c", "o", "m">>],
    [platform |-> "facebook", domain |-> <<"f", "b", ".", "w", "a", "t", "c", "h">>],
    [platform |-> "twitter", domain |-> <<"t", "w", "i", "t", "t", "e", "r", ".", "c", "o", "m">>],
    [platform |-> "twitter", domain |-> <<"x", ".", "c", "o", "m">>],
    [platform |-> "linkedin", domain |-> <<"l", "i", "n", "k", "e", "d", "i", "n", ".", "c", "o", "m">>]>>

\* The host of a URL: what stands between the "//" after the scheme and the
\* next "/", in lower case.
HostOf(url) ==
  LET colon == CHOOSE k \in DOMAIN url :
                 url[k] = ":" /\ \A i \in 1..(k - 1) : url[i] # ":"
      start == colon + 3
      stops == {i \in start..Len(url) : url[i] = "/"}
      end == IF stops = {} THEN Len(url) + 1
             ELSE CHOOSE i \in stops : \A j \in stops : i <= j
  IN ToLowerCase(SubSeq(url, start, end - 1))

\* The host is the domain or one of its subdomains.
OnDomain(host, domain) ==
  \/ host = domain
  \/ /\ Len(host) > Len(domain)
     /\ SubSeq(host, Len(host) - Len(domain), Len(host)) = <<".">> \o domain

\* The platform of the site a URL points to, other when it is none of them.
PlatformOfSite(url) ==
  LET hits == {k \in DOMAIN PlatformDomains :
                 OnDomain(HostOf(url), PlatformDomains[k].domain)}
  IN IF hits = {} THEN "other"
     ELSE PlatformDomains[CHOOSE k \in hits : \A j \in hits : k <= j].platform

\* What an addUrl request of u with this url would do now.
AddUrlNow(u, url) == AddUrlRun(items, nextItemId, u, url)

\* C17: an addUrl request with a valid URL creates exactly one item, owned by
\* the caller, of kind url and status pending, stores and returns the
\* platform of the site the URL points to (other when it is none of the
\* sites), and neither starts processing nor creates a chunk; an input that
\* is no valid URL is rejected and creates nothing.
C17_AddUrlCreatesOnePendingItem ==
  /\ [](\A id \in ItemIds :
          (items[id].exists /\ items[id].type = "url") =>
            /\ items[id].sourceUrl \notin {NoUrl, NoSchemeUrl}
            /\ items[id].platform = PlatformOfSite(items[id].sourceUrl))
  /\ [](nextItemId <= MaxItems =>
          \A u \in Users, url \in UrlInputs :
            IF url \in {NoUrl, NoSchemeUrl}
            THEN /\ ~AddUrlNow(u, url).ok
                 /\ AddUrlNow(u, url).items = items
                 /\ AddUrlNow(u, url).nextItemId = nextItemId
            ELSE /\ AddUrlNow(u, url).ok
                 /\ AddUrlNow(u, url).id = nextItemId
                 /\ AddUrlNow(u, url).nextItemId = nextItemId + 1
                 /\ AddUrlNow(u, url).items =
                      [items EXCEPT ![nextItemId] =
                         [exists |-> TRUE, userId |-> u, type |-> "url",
                          sourceUrl |-> url,
                          platform |-> AddUrlNow(u, url).platform,
                          summary |-> NullSummary,
                          status |-> "pending", progress |-> 0,
                          errorMessage |-> NoError, brainType |-> "both"]])
  /\ [][nextItemId' # nextItemId =>
          /\ chunks' = chunks /\ brainStats' = brainStats /\ runs' = runs
          /\ \A id \in ItemIds : id # nextItemId => items'[id] = items[id]]_vars

\* A pending item stored with platform twitter because its host ends in the
\* letters of a twitter domain, while a link to one of the sites gets the
\* platform of its site and an input that is no URL is rejected.
C17_Witness ==
  /\ \E id \in ItemIds :
       /\ items[id].exists /\ items[id].status = "pending"
       /\ items[id].sourceUrl = NetflixUrl
       /\ items[id].platform = "twitter"
       /\ PlatformOfSite(NetflixUrl) = "other"
  /\ \A u \in Users :
       /\ DetectPlatform(TiktokUrl) = PlatformOfSite(TiktokUrl)
       /\ PlatformOfSite(TiktokUrl) = "tiktok"
       /\ ~AddUrlRun(items, MaxItems, u, NoUrl).ok

\* The prospects, messages and suggestions user v owns in these tables.
RowsOwnedBy(v, ps, ms, sg) ==
  [prospects |-> {<<p, ps[p]>> : p \in {q \in ProspectIds : ps[q].exists /\ ps[q].userId = v}},
   chatMessages |-> {m \in ms : m.userId = v},
   aiSuggestions |-> {g \in sg : g.userId = v}]

\* The request leaves the rows of v as they are.
LeavesRowsOf(v, out) ==
  RowsOwnedBy(v, out.prospects,
              IF "chatMessages" \in DOMAIN out THEN out.chatMessages ELSE chatMessages,
              IF "aiSuggestions" \in DOMAIN out THEN out.aiSuggestions ELSE aiSuggestions)
    = RowsOwnedBy(v, prospects, chatMessages, aiSuggestions)

\* C18: no request of one user changes or deletes a prospect, a message or a
\* suggestion of another user, whatever id it names: prospect.delete,
\* workspace.delete, chat.sendOutbound, and the requests that look the
\* prospect up first.
C18_OtherUsersRowsAreLeftAlone ==
  \A u \in Users : \A v \in Users \ {u} :
    /\ \A pid \in ProspectIds, failAt \in ProspectDeleteFailures :
         LeavesRowsOf(v, ProspectDeleteRun(prospects, chatMessages, aiSuggestions,
                                           u, pid, failAt))
    /\ \A workspaceId \in Users, failAt \in WorkspaceDeleteFailures :
         LeavesRowsOf(v, WorkspaceDeleteRun(prospects, chatMessages, aiSuggestions,
                                            u, workspaceId, failAt))
    /\ \A pid \in ProspectIds, failAt \in {"none", "createChatMessage", "touchProspect"} :
         LeavesRowsOf(v, SendOutboundRun(prospects, chatMessages, nextMessageId,
                                         u, pid, failAt))
    /\ \A pid \in ProspectIds, env \in RefineEnvs :
         LeavesRowsOf(v, RefineExpertMessageRun(prospects, chatMessages, nextMessageId,
                                                u, pid, env))
    /\ \A pid \in ProspectIds, env \in ProfileEnvs :
         LeavesRowsOf(v, AnalyzeProfileRun(prospects, u, pid, env))

\* A prospect of v with a message of v: a delete request of u for its id
\* removes the message and leaves the prospect, a send request of u moves
\* its lastMessageAt, while a refine request of u changes nothing.
C18_Witness ==
  \E u \in Users, pid \in ProspectIds : \E v \in Users \ {u} :
    /\ HasProspect(prospects, pid, v)
    /\ GetChatMessages(chatMessages, pid, v) # {}
    /\ LET deleted == ProspectDeleteRun(prospects, chatMessages, aiSuggestions,
                                        u, pid, "none")
           sent == SendOutboundRun(prospects, chatMessages, nextMessageId, u, pid, "none")
       IN /\ deleted.ok
          /\ GetChatMessages(deleted.chatMessages, pid, v) = {}
          /\ deleted.prospects = prospects
          /\ sent.prospects[pid].lastMessageAt # prospects[pid].lastMessageAt
    /\ \A env \in RefineEnvs :
         LeavesRowsOf(v, RefineExpertMessageRun(prospects, chatMessages, nextMessageId,
                                                u, pid, env))

\* The progress values a run writes while the item is processing, in order.
ProcessingProgress == <<5, 10, 40, 50, 70, 75, 90>>

\* C19: within one processItem run the status of the item goes from its
\* prior value to processing and then to exactly one of ready and failed; the
\* progress values written while it is processing do not decrease and are
\* 5, 10, 40, 50, 70, 75, 90; 40 is written only after the full text is
\* there, 70 only after the summary is there, and 100 only together with
\* status ready.
C19_StatusAndProgressAdvance ==
  [][\A r \in Runs :
       InFlight(r) =>
         LET before == items[runs[r].id]
             after == items'[runs[r].id]
         IN /\ after.status # before.status =>
                 \/ /\ runs[r].pc = "setProcessing"
                    /\ before.status \in {"pending", "ready", "failed"}
                    /\ after.status = "processing" /\ after.progress = 5
                 \/ /\ runs[r].pc # "setProcessing"
                    /\ before.status = "processing"
                    /\ after.status \in {"ready", "failed"}
            /\ (before.status = "processing" /\ after.status = "processing") =>
                 /\ after.progress >= before.progress
                 /\ \E k \in DOMAIN ProcessingProgress :
                      after.progress = ProcessingProgress[k]
            /\ (after.progress = 40 /\ before.progress # 40) => runs[r].pc = "progress40"
            /\ (after.progress = 70 /\ before.progress # 70) => runs[r].pc = "progress70"
            /\ runs'[r].pc = "progress40" => runs[r].pc = "extract"
            /\ runs'[r].pc = "progress70" => runs[r].pc = "summarize"
            /\ (after.progress = 100 /\ before.progress # 100) => after.status = "ready"
            /\ after.status = "failed" => after.progress # 100
            /\ (runs'[r].pc = "done" /\ runs[r].pc # "setProcessing") =>
                 after.status \in {"ready", "failed"}]_vars

\* An item that one run has set to ready with progress 100 and then to
\* failed.
C19_Witness ==
  \E u \in Users, id \in ItemIds :
    /\ HasItem(items, id, u)
    /\ items[id].status = "failed"
    /\ items[id].progress = 100
    /\ items[id].errorMessage = ErrDb

\* The run of slot r is at its first generation call, the extraction.
AtFirstGenerationCall(r) == runs[r].pc = "extract"

\* C20: re-processing an item clears its prior chunks first: when the new run
\* is at its first generation call no chunk of the previous run is stored for
\* the source, so a run that has failed during extraction or summarizing
\* leaves the source with no chunk.
C20_ReprocessClearsChunksFirst ==
  /\ \A r \in Runs :
       AtFirstGenerationCall(r) =>
         OfSource(chunks, runs[r].id, runs[r].user) = EmptyBag
  /\ \A u \in Users, id \in ItemIds :
       (HasItem(items, id, u) /\ items[id].status = "failed"
          /\ items[id].progress \in {10, 50}) =>
         OfSource(chunks, id, u) = EmptyBag

\* A re-processed item whose run failed at the extraction call (progress 10)
\* and whose source still has the chunks of the earlier run.
C20_Witness ==
  \E u \in Users, id \in ItemIds :
    /\ HasItem(items, id, u)
    /\ items[id].status = "failed"
    /\ items[id].progress = 10
    /\ items[id].errorMessage # ErrDb
    /\ OfSource(chunks, id, u) # EmptyBag
    /\ runs[1].n = 2

\* Every await of a processItem run returns or throws: a run in flight takes
\* its next step.
SpecLive == Init /\ [][Next]_vars /\ WF_vars(ProcessItemStep(1))

\* The step with which a run of slot r that has made the transition to
\* processing ends, by its return or by its catch block.
RunEnds(r) ==
  /\ InFlight(r) /\ runs[r].pc # "setProcessing"
  /\ runs'[r].pc = "done"

Terminates == \A r \in Runs : InFlight(r) ~> ~InFlight(r)

AtMostThreeInvocations ==
  \A res \in LLMResults : res.invocations <= DefaultMaxRetries + 1

EndsReadyOrFailed ==
  [][\A r \in Runs :
       RunEnds(r) => items'[runs[r].id].status \in {"ready", "failed"}]_vars

\* C21: every processItem run terminates when each generation call and each
\* store call returns or throws; a generation stage makes at most 3
\* invocations; and when the run ends the item is ready or failed, never
\* left at processing.
C21_RunEndsReadyOrFailed ==
  /\ Terminates
  /\ []AtMostThreeInvocations
  /\ EndsReadyOrFailed

\* A run has ended with an error and its item is still processing.
C21_Witness ==
  \E u \in Users, id \in ItemIds :
    /\ HasItem(items, id, u)
    /\ items[id].status = "processing"
    /\ runs[1].pc = "done" /\ runs[1].result = "error"
    /\ runs[1].n = 1

\* processItem runs, one after the other, whose summary reply may be any of
\* SummaryReplies.
NextSummary ==
  \/ \E u \in Users : Idle /\ AddUrl(u, YoutubeUrl)
  \/ \E u \in Users, id \in ItemIds : Idle /\ ProcessItemLookup(1, u, id)
  \/ ProcessItemStepWith(1, SummaryReplies)

SpecSummary == Init /\ [][NextSummary]_vars

\* The step in which the run of slot r stores its summary with progress 70.
SummaryStored(r) == runs[r].pc = "progress70" /\ runs'[r].pc = "progress75"

AllNineFromReply == [f \in SummaryFields |-> "extracted"]

\* C22: a summary reply that lacks any of the nine fields, or whose content
\* is no string, is never stored as a partial summary: after the summarizing
\* step the item holds all nine fields of the reply or the complete degraded
\* summary.
C22_SummaryIsCompleteOrFallback ==
  [][\A r \in Runs :
       SummaryStored(r) =>
         items'[runs[r].id].summary \in {AllNineFromReply, FallbackSummary}]_vars

\* An item past the summarizing step that holds the first summary field of
\* the reply and nothing in the other eight.
C22_Witness ==
  \E id \in ItemIds :
    /\ items[id].exists
    /\ items[id].progress = 70
    /\ items[id].summary["comprehensiveSummary"] = "extracted"
    /\ \A f \in SummaryFields \ {"comprehensiveSummary"} :
         items[id].summary[f] = "NULL"

\* The places of a run after its summarizing step: chunk deletion, chunk
\* generation, chunk insertion, statistics, final status write and return.
AfterSummary ==
  {"progress75", "deleteChunks", "generateChunks", "progress90",
   "insertChunks", "updateStats", "setReady", "return"}

\* C23: when a run fails after the summarizing step, the summary fields it
\* wrote at progress 70 remain stored on the failed item: no step of the run
\* after that write, its catch block included, changes a summary column.
C23_SummarySurvivesLaterFailure ==
  [][\A r \in Runs :
       /\ SummaryStored(r) =>
            \A f \in DOMAIN runs[r].summary :
              items'[runs[r].id].summary[f] = runs[r].summary[f]
       /\ runs[r].pc \in AfterSummary \cup {"catch"} =>
            items'[runs[r].id].summary = items[runs[r].id].summary]_vars

\* The first run on an item failed at its chunk call: the item is failed at
\* progress 75 and holds the nine summary fields of the reply.
C23_Witness ==
  \E id \in ItemIds :
    /\ items[id].exists
    /\ items[id].status = "failed" /\ items[id].progress = 75
    /\ items[id].errorMessage = ErrUpstream
    /\ items[id].summary = [f \in SummaryFields |-> "extracted"]
    /\ runs[1].n = 1 /\ runs[1].pc = "done"

\* Conversations on both threads: messages sent on the friend thread,
\* messages refined on the expert thread, and the won update that reads them.
NextThreads ==
  \/ \E u \in Users :
       ProspectCreate(u, u, TRUE, FALSE, FALSE, "none", OkAtOnce, "json", TRUE)
  \/ \E u \in Users, pid \in ProspectIds : SendOutbound(u, pid, "none")
  \/ \E u \in Users, pid \in ProspectIds :
       RefineExpertMessage(u, pid, [failAt |-> "none", res |-> OkAtOnce])
  \/ \E u \in Users, pid \in ProspectIds, reply \in LearningReplies :
       UpdateOutcome(u, pid, "won",
                     [failAt |-> "none", failIndex |-> 1, res |-> OkAtOnce,
                      reply |-> reply])

SpecThreads == Init /\ [][NextThreads]_vars

\* The transcript an updateOutcome request of u for pid with outcome won
\* would pass to the extraction call now.
TranscriptNow(u, pid) ==
  UpdateOutcomeNow(u, pid, "won",
                   [failAt |-> "none", failIndex |-> 1, res |-> OkAtOnce,
                    reply |-> NominalLearning]).transcript

\* C24: the transcript updateOutcome passes to the extraction call holds
\* every message of the prospect from the friend and the expert thread
\* exactly once, in the order of creation across both threads.
C24_TranscriptIsChronological ==
  \A u \in Users, pid \in ProspectIds :
    HasProspect(prospects, pid, u) =>
      LET t == TranscriptNow(u, pid)
      IN /\ \A m \in GetChatMessages(chatMessages, pid, u) :
              Cardinality({i \in DOMAIN t : t[i] = m}) = 1
         /\ \A i \in DOMAIN t : t[i] \in GetChatMessages(chatMessages, pid, u)
         /\ \A i, j \in DOMAIN t : i < j => t[i].id < t[j].id

\* A won prospect with learned chunks whose expert-thread message is older
\* than its friend-thread message.
C24_Witness ==
  \E u \in Users, pid \in ProspectIds :
    /\ HasProspect(prospects, pid, u)
    /\ prospects[pid].outcome = "won"
    /\ OfSource(chunks, ConversationSource, u) # EmptyBag
    /\ \E e, f \in GetChatMessages(chatMessages, pid, u) :
         e.threadType = "expert" /\ f.threadType = "friend" /\ e.id < f.id

\* The number of invocations that fail before the call of `outs` ends.
FailedAttempts(outs) ==
  IF \E i \in DOMAIN outs : outs[i] = "ok"
  THEN (CHOOSE i \in DOMAIN outs :
          outs[i] = "ok" /\ \A j \in 1..(i - 1) : outs[j] # "ok") - 1
  ELSE Len(outs)

\* `outs` with every reply without choices replaced by a thrown error.
ThrownInstead(outs) ==
  [i \in DOMAIN outs |-> IF outs[i] = "noChoices" THEN "throwOther" ELSE outs[i]]

\* C25: callLLMWithRetry waits 2000 * 2^k ms after failed attempt k whenever
\* another attempt remains and does not wait after the final failed attempt;
\* with the default of 3 attempts the waits are 2000 then 4000 ms; a reply
\* without a choices array is a failed attempt, retried like any other.
C25_WaitsDoubleFromTwoSeconds ==
  retry.pc = "returned" =>
    LET failed == FailedAttempts(retry.outs)
        slept == IF failed > retry.maxRetries THEN retry.maxRetries ELSE failed
    IN /\ Len(retry.out.waits) = slept
       /\ \A k \in 0..(slept - 1) : retry.out.waits[k + 1] = 2000 * (2 ^ k)
       /\ (retry.maxRetries = DefaultMaxRetries /\ AllFail(retry.outs)) =>
            retry.out.waits = <<2000, 4000>>
       /\ CallLLMWithRetry(ThrownInstead(retry.outs), retry.maxRetries).waits
            = retry.out.waits
       /\ CallLLMWithRetry(ThrownInstead(retry.outs), retry.maxRetries).invocations
            = retry.out.invocations
       /\ CallLLMWithRetry(ThrownInstead(retry.outs), retry.maxRetries).ok
            = retry.out.ok

\* A call with three retries whose first three invocations fail, one of them
\* with a reply without choices: it slept 2000, 4000 and 8000 ms and
\* returned the fourth result.
C25_Witness ==
  /\ retry.pc = "returned"
  /\ retry.maxRetries = MaxRetriesArg
  /\ retry.outs = <<"throwOther", "noChoices", "throwHtml", "ok">>
  /\ retry.out.ok
  /\ retry.out.waits = <<2000, 4000, 8000>>

\* The ids a delete request can name: those of the Source Items and the
\* value chunks learned from conversations carry as their source.
DeleteIds == ItemIds \cup {ConversationSource}

\* The chunks of u after the first statement of knowledgeBase.delete(id).
ChunksAfterDelete(u, id) == OfUser(DeleteKnowledgeChunksBySource(chunks, id, u), u)

DeleteOfNoItemKeepsChunks ==
  \A u \in Users, id \in DeleteIds :
    ~HasItem(items, id, u) => ChunksAfterDelete(u, id) = OfUser(chunks, u)

ConversationChunksAreKept ==
  [][\A u \in Users :
       OfSource(chunks, ConversationSource, u)
         \sqsubseteq OfSource(chunks', ConversationSource, u)]_vars

\* C26: knowledgeBase.delete(id) with an id for which the caller owns no
\* Source Item leaves the caller's chunks unchanged; chunks learned from
\* conversations (source 0) are never removed by a Source Item deletion or by
\* re-processing.
C26_DeleteOfNoItemRemovesNothing ==
  /\ []DeleteOfNoItemKeepsChunks
  /\ ConversationChunksAreKept

\* A user without any Source Item who holds chunks learned from a won
\* conversation.
C26_Witness ==
  \E u \in Users :
    /\ \A id \in ItemIds : ~HasItem(items, id, u)
    /\ OfSource(chunks, ConversationSource, u) # EmptyBag
    /\ ChunksAfterDelete(u, ConversationSource) = EmptyBag

\* C27: whenever an item has status ready its stored error message is empty:
\* a successful run on an item whose previous run failed clears the message.
C27_ReadyItemHasNoErrorMessage ==
  \A id \in ItemIds :
    (items[id].exists /\ items[id].status = "ready") =>
      items[id].errorMessage = NoError

\* An item made ready by the second run on it, still holding the message of
\* the failure of the first.
C27_Witness ==
  \E id \in ItemIds :
    /\ items[id].exists
    /\ items[id].status = "ready" /\ items[id].progress = 100
    /\ items[id].errorMessage = ErrUpstream
    /\ runs[1].n = 2 /\ runs[1].pc = "done" /\ runs[1].result = "ok"

\* The item has one of the two final statuses.
Final(id) == items[id].exists /\ items[id].status \in {"ready", "failed"}

\* C28: in every reachable state, with overlapping processItem runs on the
\* same item interleaved in every way, status ready implies progress 100,
\* and a status of failed or ready is never overwritten by a progress or
\* summary write of an older run that is still executing: such a write
\* leaves the status, the progress and the summary of the item as they are.
C28_FinalStatusOutlivesOlderRuns ==
  /\ [](\A id \in ItemIds :
          (items[id].exists /\ items[id].status = "ready") =>
            items[id].progress = 100)
  /\ [][\A r \in Runs :
          (/\ InFlight(r) /\ runs[r].pc \notin {"setProcessing", "setReady", "catch"}
           /\ Final(runs[r].id)) =>
            /\ items'[runs[r].id].status = items[runs[r].id].status
            /\ items'[runs[r].id].progress = items[runs[r].id].progress
            /\ items'[runs[r].id].summary = items[runs[r].id].summary]_vars

\* One run has returned success and the item is ready, with the progress a
\* second, still executing run wrote afterwards.
C28_Witness ==
  \E r, o \in Runs, id \in ItemIds :
    /\ r # o
    /\ runs[r].pc = "done" /\ runs[r].result = "ok" /\ runs[r].id = id
    /\ InFlight(o) /\ runs[o].id = id
    /\ items[id].status = "ready" /\ items[id].progress < 100

\* processItem runs, one at a time, and changes of an item's persona scope
\* between them.
NextBrain ==
  \/ \E u \in Users : Idle /\ AddUrl(u, YoutubeUrl)
  \/ \E u \in Users, id \in ItemIds : Idle /\ ProcessItemLookup(1, u, id)
  \/ ProcessItemStep(1)
  \/ \E u \in Users, id \in ItemIds, brainType \in BrainTypes,
        failAt \in SetBrainTypeFailures :
       Idle /\ SetBrainType(u, id, brainType, failAt)

SpecBrain == Init /\ [][NextBrain]_vars

\* C29: after any sequence of processItem and setBrainType operations every
\* chunk that references a Source Item has the persona scope of that item.
C29_ChunkScopeFollowsItem ==
  Idle =>
    \A c \in BagToSet(chunks) :
      HasItem(items, c.sourceId, c.userId) =>
        c.brainType = items[c.sourceId].brainType

\* A ready item switched to the friend scope whose chunks are still scoped
\* to both personas.
C29_Witness ==
  \E id \in ItemIds :
    /\ Idle
    /\ items[id].exists /\ items[id].status = "ready"
    /\ items[id].brainType = "friend"
    /\ \E c \in BagToSet(chunks) :
         c.sourceId = id /\ c.userId = items[id].userId /\ c.brainType = "both"

\* The requests that retrieve chunks by category, each run to its end, on
\* prospects with and without an imported conversation, and the won update
\* that fills the brain they read.
NextRetrieval ==
  \/ \E u \in Users, isReEngagement \in BOOLEAN, imported \in BOOLEAN :
       ProspectCreate(u, u, TRUE, isReEngagement, imported, "none", OkAtOnce,
                      "json", TRUE)
  \/ \E u \in Users, pid \in ProspectIds :
       UpdateOutcome(u, pid, "won",
                     [failAt |-> "none", failIndex |-> 1, res |-> OkAtOnce,
                      reply |-> NominalLearning])
  \/ \E u \in Users, pid \in ProspectIds, sc \in StageContents :
       SendInbound(u, pid, [failAt |-> "none", stageRes |-> OkAtOnce,
                            stageContent |-> sc, res |-> OkAtOnce,
                            reply |-> NominalSuggestion])
  \/ \E u \in Users, pid \in ProspectIds :
       AnalyzeProfile(u, pid, [failAt |-> "none", res |-> OkAtOnce, reply |-> "json"])
  \/ \E u \in Users, pid \in ProspectIds :
       RefineExpertMessage(u, pid, [failAt |-> "none", res |-> OkAtOnce])

SpecRetrieval == Init /\ [][NextRetrieval]_vars

\* A list of categories, all of them among the ten a chunk can have.
OnlyChunkCategories(list) == Range(list) \subseteq TenCategories

\* The step of a prospect.create request that stored the imported
\* conversation and went on to its retrieval.
CreatedWithImport ==
  nextProspectId' = nextProspectId + 1 /\ chatMessages' # chatMessages

SendInboundSearchesChunkCategories ==
  \A u \in Users, pid \in ProspectIds, env \in SendInboundEnvs :
    SendInboundNow(u, pid, env).detectedStage # "none" =>
      /\ SendInboundNow(u, pid, env).categories.isArray
      /\ OnlyChunkCategories(SendInboundNow(u, pid, env).categories.value)

AnalyzeProfileSearchesChunkCategories ==
  \A u \in Users, pid \in ProspectIds, env \in ProfileEnvs :
    OnlyChunkCategories(AnalyzeProfileRun(prospects, u, pid, env).categories)

RefineSearchesChunkCategories ==
  \A u \in Users, pid \in ProspectIds, env \in RefineEnvs :
    OnlyChunkCategories(
      RefineExpertMessageRun(prospects, chatMessages, nextMessageId, u, pid, env).categories)

CreateSearchesChunkCategories ==
  [][CreatedWithImport => OnlyChunkCategories(SearchCategories.prospectCreate)]_vars

\* C30: every category list a retrieval call site passes to the store
\* (sendInbound through getRelevantCategories for any stage string,
\* analyzeProfile, the re-engagement path of prospect.create and
\* refineExpertMessage) holds only members of the ten chunk categories.
C30_RetrievalUsesChunkCategories ==
  /\ []SendInboundSearchesChunkCategories
  /\ []AnalyzeProfileSearchesChunkCategories
  /\ []RefineSearchesChunkCategories
  /\ CreateSearchesChunkCategories

\* A prospect created with an imported conversation, whose re-engagement
\* analysis was stored after the retrieval, and whose owner has a brain a
\* sendInbound request would search.
C30_Witness ==
  \E u \in Users, pid \in ProspectIds :
    /\ HasProspect(prospects, pid, u)
    /\ prospects[pid].conversationStage = "warm_rapport"
    /\ \E m \in GetChatMessages(chatMessages, pid, u) : m.direction = "outbound"
    /\ prospects[pid].outcome = "won"
    /\ \E env \in SendInboundEnvs :
         SendInboundNow(u, pid, env).detectedStage = "constructor"

====
